---- MODULE Spec2Model ----
(***************************************************************************)
(* pycarplay: the audio ring buffer / player (audio_player.py), the        *)
(* reconnection supervisor (main.py, VideoStreamController), the message   *)
(* header codec and the audio message (messages.py), the USB driver        *)
(* (dongle_driver.py), the session controller (carplay_node.py), the       *)
(* touch message (sendable.py) and the video decoder (video_decoder.py).   *)
(*                                                                         *)
(* Audio quantities are scaled: one model frame stands for a block of      *)
(* source frames, so that the ratios the code computes (1.5 s target,      *)
(* 5 s hard ceiling, 0.8 s / 1.5 s pre-buffer, buffer longer than the      *)
(* ceiling) keep their order.                                              *)
(***************************************************************************)
EXTENDS Integers, Sequences, FiniteSets, TLC

(***************************************************************************)
(* Bounds and scaled constants of the audio player.                        *)
(***************************************************************************)
\* _buffer_size (960000 frames in the source), scaled.
buffer_size == 24
\* Writes are accepted while frames_received < MaxFrames.
MaxFrames == 4
\* The underrun counter stops the model at MaxUnderruns.
MaxUnderruns == 2
\* sample rates of DECODE_TYPE_MAP (8000..48000 Hz in the source), scaled.
SampleRates == {3, 4}
\* self.sample_rate = 44100
default_sample_rate == 3
ChannelCounts == {1, 2}
\* self.channels = 2
default_channels == 2
\* lengths of the sample tuples handed to playAudioData (interleaved samples)
WriteLens == {8, 16}
\* frames requested by one pull of the output stream; the host audio
\* subsystem asks for blocks far shorter than the 0.8 s pre-buffer.
PullSizes == {1, 2}
\* the overflow log is rate limited to once per 100 received frames
overflow_log_interval == 100

VARIABLES
    buffer,               \* _buffer: [0..buffer_size-1 -> sample], 0 is silence
    write_pos,            \* _write_pos
    read_pos,             \* _read_pos
    buffering,            \* _buffering
    is_playing,           \* _is_playing
    stream,               \* _stream is open and started: pulls can arrive
    sample_rate,          \* sample_rate
    channels,             \* channels
    current_sample_rate,  \* _current_sample_rate, 0 stands for None
    min_buffer_samples,   \* _min_buffer_samples
    frames_received,      \* _frames_received
    underruns,            \* _underruns
    last_overflow_log,    \* _last_overflow_log
    outdata,              \* what the pull just made put into outdata, else <<>>
    audio_op,             \* the last audio operation and what it did
    g_written,            \* frames written since the last cursor reset
    g_read,               \* frames delivered by pulls since the last cursor reset
    g_dropped,            \* frames discarded (overflow, resync) since then
    g_lapped              \* more than buffer_size frames were pending since then

audio_vars == <<buffer, write_pos, read_pos, buffering, is_playing, stream,
                sample_rate, channels, current_sample_rate, min_buffer_samples,
                frames_received, underruns, last_overflow_log, outdata,
                audio_op, g_written, g_read, g_dropped, g_lapped>>

VARIABLES
    reconnect_attempts,       \* _reconnect_attempts
    reconnect_timer,          \* _reconnect_timer: 0 inactive, else its delay in ms
    timer_left,               \* time left until _reconnect_timer expires, in 2.5 s
    dongle_status,            \* _dongle_status
    carplay_node,             \* _carplay_node is not None
    phone_connected,          \* _phone_connected
    pending_settings_reload,  \* _pending_settings_reload
    failed_signals,           \* connectionFailed emissions queued for the main thread
    connect_timers,           \* pending QTimer.singleShot(delay, connectDongle), by delay
    reload_timers,            \* pending QTimer.singleShot(.., _reload_device)
    sup_op                    \* the supervisor handler that made the last step

sup_vars == <<reconnect_attempts, reconnect_timer, timer_left, dongle_status, carplay_node,
              phone_connected, pending_settings_reload, failed_signals,
              connect_timers, reload_timers, sup_op>>

VARIABLES
    hdr_stage,    \* "idle", "encoded" (as_buffer returned), "decoded" (from_buffer returned)
    hdr_type,     \* the message_type given to as_buffer
    hdr_length,   \* the byte_length given to as_buffer
    hdr_buffer,   \* the bytes as_buffer returned
    hdr_result    \* what from_buffer returned or raised

hdr_vars == <<hdr_stage, hdr_type, hdr_length, hdr_buffer, hdr_result>>

VARIABLES
    device,            \* DongleDriver.device is set (not None)
    running,           \* DongleDriver._running
    error_count,       \* DongleDriver.error_count
    caller,            \* where the thread that initialises and starts the driver is
    read_thread,       \* position of the _read_loop thread
    heartbeat_thread,  \* position of the _heartbeat_loop thread
    in_hand,           \* number of the message the read loop holds, 0 for none
    messages_read,     \* how many messages the read loop has read so far
    delivered,         \* the messages handed to the message subscribers, in order
    failures,          \* rounds of failure notification made so far (saturating)
    heartbeats,        \* HeartBeat frames written so far (saturating)
    drv_op,            \* the step just made: [op, outcome, notified, recovery]
    usb_present,       \* the dongle is still on the bus
    closing,           \* the thread inside close(): "none", "caller", "read"
    pending_payload,   \* bytes of a skipped header's payload still waiting
                       \* in the IN endpoint
    config             \* DongleDriver.config is set (not None)

drv_vars == <<device, running, error_count, caller, read_thread,
              heartbeat_thread, in_hand, messages_read, delivered, failures,
              heartbeats, drv_op, usb_present, closing, pending_payload,
              config>>

VARIABLES
    node_pc,                \* where the thread running CarplayNode.start() is
    pair_timeout,           \* CarplayNode._pair_timeout is set (not None)
    pair_timer,             \* the Timer object armed by start()
    frame_interval_active,  \* CarplayNode._frame_interval_active
    frame_interval,         \* the Timer CarplayNode._frame_interval refers to
    stray_armed,            \* armed frame Timers nothing refers to any more
    stray_expired,          \* such Timers whose send_frame is under way
    node_in_hand,           \* the message the read thread is about to dispatch
    node_messages,          \* messages read in this session
    node_stop,              \* progress of CarplayNode.stop()
    data_handled,           \* a Plugged, Video, Audio or Media message was handled
    wifi_pairs,             \* "wifiPair" commands written (saturating)
    frames_sent,            \* "frame" commands written (saturating)
    failure_events,         \* FAILURE events start() gave to onmessage
    node_op                 \* the step just made: [op, kind]

node_vars == <<node_pc, pair_timeout, pair_timer, frame_interval_active,
               frame_interval, stray_armed, stray_expired, node_in_hand,
               node_messages, node_stop, data_handled, wifi_pairs,
               frames_sent, failure_events, node_op>>

VARIABLES
    aud_stage,       \* "idle", "decoded" (create_message returned), "handled"
    aud_amount,      \* len(data) - 12 of the AudioData payload last received
    aud_byte,        \* data[12] read as a signed byte ('<b')
    aud_message,     \* what create_message returned: NoMessage or an AudioData
    mic_registered,  \* CarplayNode._microphone_callback is set
    mic_calls,       \* the actions the callback was called with for this message
    audio_events,    \* AUDIO events given to onmessage for this message
    aud_op           \* the step just made and how it ended

aud_vars == <<aud_stage, aud_amount, aud_byte, aud_message, mic_registered,
              mic_calls, audio_events, aud_op>>

VARIABLES
    touch_stage,    \* "idle" or "encoded" (SendTouch.get_payload returned)
    touch_x,        \* SendTouch.x, a fraction [num, den]
    touch_y,        \* SendTouch.y, a fraction [num, den]
    touch_action,   \* SendTouch.action
    touch_payload   \* the four integers given to struct.pack('<IIII', ...)

touch_vars == <<touch_stage, touch_x, touch_y, touch_action, touch_payload>>

\* the driver fields the session controller's threads do not touch
drv_rest == <<error_count, caller, heartbeat_thread, in_hand, messages_read,
              delivered, failures, heartbeats, drv_op, usb_present, closing,
              pending_payload, config>>

VARIABLES
    lock_owner,       \* the thread inside `with self._buffer_lock`, or "none"
    lk_write_pos,     \* _write_pos as the two threads leave it
    lk_read_pos,      \* _read_pos as the two threads leave it
    lk_buffering,     \* _buffering as the two threads leave it
    lk_stream,        \* the output stream is started: the callback thread runs
    producer_pc,      \* where the thread calling playAudioData/stop/setSampleRate is
    producer_n,       \* frames of the write that thread is making, 0 for none
    producer_restart, \* setSampleRate found the player playing
    callback_pc,      \* where the audio callback thread is
    callback_frames,  \* frames the pull in progress requests
    callback_available, \* `available` as the pull in progress computed it
    serial            \* the (read, write, buffering) tuple after the locked
                      \* sections entered so far, each applied as one step

lock_vars == <<lock_owner, lk_write_pos, lk_read_pos, lk_buffering, lk_stream,
               producer_pc, producer_n, producer_restart, callback_pc,
               callback_frames, callback_available, serial>>

VARIABLES
    dec_impl,               \* which VideoDecoder class was constructed, "none" before
    dec_frame_count,        \* _frame_count
    dec_error_count,        \* _error_count
    dec_consecutive_errors, \* _consecutive_errors
    dec_run,                \* decode_frame calls that raised since the last decoded frame
    dec_emitted,            \* tooManyErrors emissions since the last decoded frame
    dec_op                  \* the last step of the decoder and whether it emitted

dec_vars == <<dec_impl, dec_frame_count, dec_error_count,
              dec_consecutive_errors, dec_run, dec_emitted, dec_op>>

vars == <<audio_vars, sup_vars, hdr_vars, drv_vars, node_vars, aud_vars, touch_vars, lock_vars, dec_vars>>

Min(a, b) == IF a <= b THEN a ELSE b

(***************************************************************************)
(* AudioPlayer                                                             *)
(***************************************************************************)
ZeroBuffer == [i \in 0..(buffer_size - 1) |-> 0]

Silence(frames) == [i \in 1..frames |-> 0]

\* int(self.sample_rate * 1.5)
prebuffer_initial(sr) == (sr * 3) \div 2

\* a pre-buffer of one full second
prebuffer_full_second(sr) == sr

\* int(self.sample_rate * 0.8)
prebuffer_configured(sr) == (sr * 4) \div 5

\* target_buffer = int(self.sample_rate * 1.5)
target_buffer(sr) == (sr * 3) \div 2

\* hard_max = int(self.sample_rate * 5.0)
hard_max(sr) == sr * 5

\* _get_available_samples
get_available_samples(w, r) ==
    IF w >= r THEN w - r ELSE buffer_size - r + w

\* buffering_complete with a strict comparison
buffering_complete_strict(available, minimum) == available > minimum

\* if available >= self._min_buffer_samples: buffering is complete
buffering_complete(available, minimum) == available >= minimum

\* read_frames whose second part starts one cell late after the wrap
read_frames_late(buf, r, frames) ==
    IF r + frames <= buffer_size
    THEN [i \in 1..frames |-> buf[r + i - 1]]
    ELSE LET first_part == buffer_size - r
         IN  [i \in 1..frames |->
                 IF i <= first_part THEN buf[r + i - 1]
                                    ELSE buf[i - first_part]]

\* the frames a read of `frames` frames at cursor r copies out
read_frames(buf, r, frames) ==
    IF r + frames <= buffer_size
    THEN [i \in 1..frames |-> buf[r + i - 1]]
    ELSE LET first_part == buffer_size - r
         IN  [i \in 1..frames |->
                 IF i <= first_part THEN buf[r + i - 1]
                                    ELSE buf[i - first_part - 1]]

\* the read cursor after a read of `frames` frames at cursor r
read_advance(r, frames) ==
    LET moved == IF r + frames <= buffer_size
                 THEN r + frames
                 ELSE frames - (buffer_size - r)
    IN  IF moved >= buffer_size THEN 0 ELSE moved

\* resync_skip that discards all of `available`, not the excess over the target
resync_skip_all(available, sr) ==
    IF available > hard_max(sr) THEN available ELSE 0

\* resync_skip that discards down to the hard ceiling, not to the target
resync_skip_ceiling(available, sr) ==
    IF available > hard_max(sr) THEN available - hard_max(sr) ELSE 0

\* the frames an emergency resync discards (0: no resync)
resync_skip(available, sr) ==
    IF available > hard_max(sr) THEN available - target_buffer(sr) ELSE 0

\* the frames a write of n frames drops from the head (0: enough space)
overflow_drop(available, n) ==
    LET free_space == buffer_size - available
    IN  IF free_space < n THEN n - free_space ELSE 0

\* the buffer after writing `data` at cursor w
write_frames(buf, w, data) ==
    LET n == Len(data)
    IN  IF w + n <= buffer_size
        THEN [i \in 0..(buffer_size - 1) |->
                 IF i >= w /\ i < w + n THEN data[i - w + 1] ELSE buf[i]]
        ELSE LET first_part == buffer_size - w
             IN  [i \in 0..(buffer_size - 1) |->
                     IF i >= w THEN data[i - w + 1]
                     ELSE IF i < n - first_part THEN data[first_part + i + 1]
                     ELSE buf[i]]

\* the write cursor after a write of n frames at cursor w
write_advance(w, n) ==
    LET moved == IF w + n <= buffer_size
                 THEN w + n
                 ELSE n - (buffer_size - w)
    IN  IF moved >= buffer_size THEN 0 ELSE moved

\* the frames a reader would get from the cursors as they stand
Readable(buf, r, w) == read_frames(buf, r, get_available_samples(w, r))

\* the sample tuple of a write: frames numbered in the order written
NewFrames(first, n) == [i \in 1..n |-> first + i]

\* the operation that made the last step: its name, the frames it discarded,
\* and whether it left Buffering (a pull) or called start() (a write)
Op(name, drop, flip) == [op |-> name, drop |-> drop, flip |-> flip]

\* the label of a pull; host: status.output_underflow was set
PullOp(name, drop, flip, host) ==
    [op |-> name, drop |-> drop, flip |-> flip, host |-> host]

\* the host's underflow flag left out of the count
host_underflow_ignored(count, output_underflow) == count

\* if status.output_underflow: self._underruns += 1
host_underflow_count(count, output_underflow) ==
    IF output_underflow THEN count + 1 ELSE count

AudioInit ==
    /\ buffer = ZeroBuffer
    /\ write_pos = 0
    /\ read_pos = 0
    /\ buffering = TRUE
    /\ is_playing = FALSE
    /\ stream = FALSE
    /\ sample_rate = default_sample_rate
    /\ channels = default_channels
    /\ current_sample_rate = 0
    /\ min_buffer_samples = prebuffer_initial(default_sample_rate)
    /\ frames_received = 0
    /\ underruns = 0
    /\ last_overflow_log = 0
    /\ outdata = <<>>
    /\ audio_op = Op("init", 0, FALSE)
    /\ g_written = 0
    /\ g_read = 0
    /\ g_dropped = 0
    /\ g_lapped = FALSE


\* AudioPlayer._audio_callback(outdata, frames, time_info, status)
audio_callback(frames, output_underflow) ==
    /\ stream
    /\ LET counted == host_underflow_count(underruns, output_underflow)
           available == get_available_samples(write_pos, read_pos)
       IN  IF buffering /\ ~buffering_complete(available, min_buffer_samples)
           THEN \* still buffering: silence, nothing else moves
                /\ counted <= MaxUnderruns
                /\ underruns' = counted
                /\ outdata' = Silence(frames)
                /\ audio_op' = PullOp("pull_wait", 0, FALSE, output_underflow)
                /\ UNCHANGED <<read_pos, buffering, last_overflow_log,
                               g_read, g_dropped>>
           ELSE LET gated == IF buffering THEN 0 ELSE counted
                IN  /\ buffering' = FALSE
                    /\ IF available >= frames
                       THEN LET skip == resync_skip(available, sample_rate)
                                after_read == read_advance(read_pos, frames)
                            IN  /\ gated <= MaxUnderruns
                                /\ underruns' = gated
                                /\ outdata' = read_frames(buffer, read_pos, frames)
                                /\ read_pos' = IF skip > 0
                                               THEN (after_read + skip) % buffer_size
                                               ELSE after_read
                                /\ last_overflow_log' =
                                       IF skip > 0 /\ frames_received - last_overflow_log
                                                          > overflow_log_interval
                                       THEN frames_received
                                       ELSE last_overflow_log
                                /\ g_read' = g_read + frames
                                /\ g_dropped' = g_dropped + skip
                                /\ audio_op' = PullOp("pull_read", skip, buffering,
                                                     output_underflow)
                       ELSE /\ gated + 1 <= MaxUnderruns
                            /\ underruns' = gated + 1
                            /\ outdata' = Silence(frames)
                            /\ audio_op' = PullOp("pull_underrun", 0, buffering,
                                                 output_underflow)
                            /\ UNCHANGED <<read_pos, last_overflow_log,
                                           g_read, g_dropped>>
    /\ UNCHANGED <<buffer, write_pos, is_playing, stream, sample_rate, channels,
                   current_sample_rate, min_buffer_samples, frames_received,
                   g_written, g_lapped>>

\* AudioPlayer.start(); opened: sd.OutputStream(...) and its start() succeed
start(opened) ==
    /\ ~is_playing
    /\ write_pos' = 0
    /\ read_pos' = 0
    /\ buffering' = TRUE
    /\ buffer' = ZeroBuffer
    /\ stream' = opened
    /\ is_playing' = opened
    /\ g_written' = 0
    /\ g_read' = 0
    /\ g_dropped' = 0
    /\ g_lapped' = FALSE
    /\ audio_op' = Op("start", 0, FALSE)
    /\ outdata' = <<>>
    /\ UNCHANGED <<sample_rate, channels, current_sample_rate, min_buffer_samples,
                   frames_received, underruns, last_overflow_log>>

\* AudioPlayer.stop()
stop ==
    /\ is_playing' = FALSE
    /\ stream' = FALSE
    /\ write_pos' = 0
    /\ read_pos' = 0
    /\ buffering' = TRUE
    /\ g_written' = 0
    /\ g_read' = 0
    /\ g_dropped' = 0
    /\ g_lapped' = FALSE
    /\ audio_op' = Op("stop", 0, FALSE)
    /\ outdata' = <<>>
    /\ UNCHANGED <<buffer, sample_rate, channels, current_sample_rate,
                   min_buffer_samples, frames_received, underruns,
                   last_overflow_log>>

\* AudioPlayer.setSampleRate(sample_rate, channels); opened: as in start
setSampleRate(rate, ch, opened) ==
    IF current_sample_rate = rate /\ channels = ch
    THEN /\ audio_op' = Op("configure_same", 0, FALSE)
         /\ outdata' = <<>>
         /\ UNCHANGED <<buffer, write_pos, read_pos, buffering, is_playing, stream,
                        sample_rate, channels, current_sample_rate,
                        min_buffer_samples, frames_received, underruns,
                        last_overflow_log, g_written, g_read, g_dropped,
                        g_lapped>>
    ELSE LET was_playing == is_playing
         IN  /\ sample_rate' = rate
             /\ channels' = ch
             /\ min_buffer_samples' = prebuffer_configured(rate)
             /\ current_sample_rate' = rate
             /\ buffer' = ZeroBuffer
             /\ write_pos' = 0
             /\ read_pos' = 0
             \* stop() and start() both leave _buffering True
             /\ buffering' = IF was_playing THEN TRUE ELSE buffering
             /\ is_playing' = (was_playing /\ opened)
             /\ stream' = (was_playing /\ opened)
             /\ g_written' = 0
             /\ g_read' = 0
             /\ g_dropped' = 0
             /\ g_lapped' = FALSE
             /\ audio_op' = Op("configure", 0, FALSE)
             /\ outdata' = <<>>
             /\ UNCHANGED <<frames_received, underruns, last_overflow_log>>

\* AudioPlayer.playAudioData(audio_data); len: len(audio_data);
\* opened: the outcome of the start() it calls when not playing
playAudioData(len, opened) ==
    /\ frames_received < MaxFrames
    /\ LET started == ~is_playing
           w0 == IF started THEN 0 ELSE write_pos
           r0 == IF started THEN 0 ELSE read_pos
           buf0 == IF started THEN ZeroBuffer ELSE buffer
           written0 == IF started THEN 0 ELSE g_written
           frames_count == len \div channels
           audio_array == NewFrames(written0, frames_count)
           available == get_available_samples(w0, r0)
           overflow == overflow_drop(available, frames_count)
       IN  /\ is_playing' = IF started THEN opened ELSE is_playing
           /\ stream' = IF started THEN opened ELSE stream
           /\ buffering' = IF started THEN TRUE ELSE buffering
           /\ read_pos' = IF overflow > 0 THEN (r0 + overflow) % buffer_size ELSE r0
           /\ buffer' = write_frames(buf0, w0, audio_array)
           /\ write_pos' = write_advance(w0, frames_count)
           /\ g_written' = written0 + frames_count
           /\ g_read' = IF started THEN 0 ELSE g_read
           /\ g_dropped' = (IF started THEN 0 ELSE g_dropped) + overflow
           /\ g_lapped' = \/ (~started /\ g_lapped)
                          \/ g_written' - g_read' - g_dropped' > buffer_size
           /\ audio_op' = Op("write", overflow, started)
    /\ frames_received' = frames_received + 1
    /\ outdata' = <<>>
    /\ UNCHANGED <<sample_rate, channels, current_sample_rate, min_buffer_samples,
                   underruns, last_overflow_log>>

(***************************************************************************)
(* VideoStreamController: connection and reconnection supervisor           *)
(***************************************************************************)
\* self._max_reconnect_attempts = 5
max_reconnect_attempts == 5
\* queued connectionFailed signals the model holds at once
MaxFailedSignals == 2
\* single-shot timers the model holds at once
MaxTimers == 2
\* delays of the QTimer.singleShot calls that end in connectDongle
ConnectDelays == {500, 1000, 2000, 15000}
PhoneTypes == {"CarPlay", "AndroidAuto"}

NoTimers == [d \in ConnectDelays |-> 0]

RECURSIVE SumOver(_, _)
SumOver(f, S) ==
    IF S = {} THEN 0
    ELSE LET d == CHOOSE x \in S : TRUE IN f[d] + SumOver(f, S \ {d})

PendingTimers == SumOver(connect_timers, ConnectDelays) + reload_timers

\* QTimer.singleShot(delay, self.connectDongle)
Scheduled(timers, delay) == [timers EXCEPT ![delay] = @ + 1]

\* delay = min(5000 * (2 ** self._reconnect_attempts), 30000) without the cap
backoff_delay_uncapped(attempts) == 5000 * (2 ^ attempts)

\* delay = min(5000 * (2 ** self._reconnect_attempts), 30000)
backoff_delay(attempts) == Min(5000 * (2 ^ attempts), 30000)

\* the test of _on_connection_failed passing with the attempts used up
attempts_remain_one_more(attempts) == attempts <= max_reconnect_attempts

\* if self._reconnect_attempts < self._max_reconnect_attempts
attempts_remain(attempts) == attempts < max_reconnect_attempts

\* the decoder-driven reconnect scheduled like a failure-driven one
decoder_reconnect_as_attempt(timers) == Scheduled(timers, 1000)

\* QTimer.singleShot(15000, self.connectDongle)
decoder_reconnect(timers) == Scheduled(timers, 15000)

\* _handle_plugged that keeps the counter
plugged_attempts_kept(attempts) == attempts

\* _handle_plugged: self._reconnect_attempts = 0
plugged_attempts(attempts) == 0

\* f"Connected - {phone_type}"
connected_status(phone_type) ==
    IF phone_type = "CarPlay" THEN "Connected - CarPlay"
                              ELSE "Connected - AndroidAuto"

SupInit ==
    /\ reconnect_attempts = 0
    /\ reconnect_timer = 0
    /\ timer_left = 0
    /\ dongle_status = "Disconnected"
    /\ carplay_node = FALSE
    /\ phone_connected = FALSE
    /\ pending_settings_reload = FALSE
    /\ failed_signals = 0
    \* main(): QTimer.singleShot(500, video_controller.connectDongle)
    /\ connect_timers = Scheduled(NoTimers, 500)
    /\ reload_timers = 0
    /\ sup_op = "init"

\* connectDongle(): a new CarplayNode is created and started in a thread
connectDongle ==
    /\ dongle_status' = "Initializing..."
    /\ carplay_node' = TRUE
    /\ sup_op' = "connect"
    /\ UNCHANGED <<reconnect_attempts, reconnect_timer, timer_left, phone_connected,
                   pending_settings_reload, failed_signals, reload_timers>>

\* a QTimer.singleShot(delay, self.connectDongle) expires
connect_timer_expires(delay) ==
    /\ connect_timers[delay] > 0
    /\ connect_timers' = [connect_timers EXCEPT ![delay] = @ - 1]
    /\ connectDongle
    /\ UNCHANGED audio_vars

\* the user calls connectDongle()
connect_by_user ==
    /\ connectDongle
    /\ UNCHANGED <<connect_timers, audio_vars>>

\* disconnectDongle(): the supervisor's part; it also stops the audio player
disconnected ==
    /\ stop
    /\ carplay_node' = FALSE
    /\ dongle_status' = "Disconnected"

\* the user calls disconnectDongle()
disconnectDongle ==
    /\ disconnected
    /\ sup_op' = "disconnect"
    /\ UNCHANGED <<reconnect_attempts, reconnect_timer, timer_left, phone_connected,
                   pending_settings_reload, failed_signals, connect_timers,
                   reload_timers>>

\* _handle_failure(), on the thread of the node that reports FAILURE
handle_failure ==
    /\ carplay_node
    /\ failed_signals < MaxFailedSignals
    /\ dongle_status' = "Failed"
    /\ failed_signals' = failed_signals + 1
    /\ sup_op' = "failure"
    /\ UNCHANGED <<reconnect_attempts, reconnect_timer, timer_left, carplay_node,
                   phone_connected, pending_settings_reload, connect_timers,
                   reload_timers, audio_vars>>

\* _on_connection_failed(), on the main thread, for one queued signal
on_connection_failed ==
    /\ failed_signals > 0
    /\ failed_signals' = failed_signals - 1
    /\ reconnect_timer' =
           IF attempts_remain(reconnect_attempts)
           THEN backoff_delay(reconnect_attempts)
           ELSE reconnect_timer
    \* self._reconnect_timer.start(delay) restarts a timer that is running
    /\ timer_left' =
           IF attempts_remain(reconnect_attempts)
           THEN backoff_delay(reconnect_attempts) \div 2500
           ELSE timer_left
    /\ sup_op' = "failed"
    /\ UNCHANGED <<reconnect_attempts, dongle_status, carplay_node,
                   phone_connected, pending_settings_reload, connect_timers,
                   reload_timers, audio_vars>>

\* _attempt_reconnect(), when the single-shot _reconnect_timer expires
attempt_reconnect ==
    /\ reconnect_timer > 0
    /\ timer_left = 0
    /\ reconnect_timer' = 0
    /\ reconnect_attempts' = reconnect_attempts + 1
    /\ IF reconnect_attempts' > max_reconnect_attempts
       THEN /\ dongle_status' = "Failed - Manual reconnection needed"
            /\ UNCHANGED <<carplay_node, connect_timers, audio_vars>>
       ELSE /\ PendingTimers < MaxTimers
            /\ disconnected
            /\ connect_timers' = Scheduled(connect_timers, 1000)
    /\ sup_op' = "attempt"
    /\ UNCHANGED <<timer_left, phone_connected, pending_settings_reload,
                   failed_signals, reload_timers>>

\* 2.5 s pass: the running _reconnect_timer is that much nearer to its
\* expiry
time_passes ==
    /\ timer_left > 0
    /\ timer_left' = timer_left - 1
    /\ sup_op' = "time"
    /\ UNCHANGED <<reconnect_attempts, reconnect_timer, dongle_status,
                   carplay_node, phone_connected, pending_settings_reload,
                   failed_signals, connect_timers, reload_timers, audio_vars>>

\* _on_decoder_errors(): tooManyErrors of the video decoder of the running
\* session, delivered on the main thread
on_decoder_errors ==
    /\ carplay_node
    /\ PendingTimers < MaxTimers
    /\ disconnected
    /\ connect_timers' = decoder_reconnect(connect_timers)
    /\ sup_op' = "decoder_errors"
    /\ UNCHANGED <<reconnect_attempts, reconnect_timer, timer_left,
                   phone_connected, pending_settings_reload, failed_signals,
                   reload_timers>>

\* _handle_plugged(message)
handle_plugged(phone_type) ==
    /\ carplay_node
    /\ phone_connected' = TRUE
    /\ reconnect_attempts' = plugged_attempts(reconnect_attempts)
    /\ dongle_status' = connected_status(phone_type)
    /\ IF pending_settings_reload
       THEN /\ PendingTimers < MaxTimers
            /\ pending_settings_reload' = FALSE
            /\ reload_timers' = reload_timers + 1
       ELSE UNCHANGED <<pending_settings_reload, reload_timers>>
    /\ sup_op' = "plugged"
    /\ UNCHANGED <<reconnect_timer, timer_left, carplay_node, failed_signals, connect_timers,
                   audio_vars>>

\* _handle_unplugged()
handle_unplugged ==
    /\ carplay_node
    /\ phone_connected' = FALSE
    /\ dongle_status' = "Connected - No phone"
    /\ reconnect_attempts' = 0
    /\ sup_op' = "unplugged"
    /\ UNCHANGED <<reconnect_timer, timer_left, carplay_node, pending_settings_reload,
                   failed_signals, connect_timers, reload_timers, audio_vars>>

\* setVideoSettings(width, height, dpi): its part in the reconnection logic
setVideoSettings ==
    /\ IF carplay_node
       THEN IF phone_connected
            THEN /\ PendingTimers < MaxTimers
                 /\ reload_timers' = reload_timers + 1
                 /\ UNCHANGED pending_settings_reload
            ELSE /\ pending_settings_reload' = TRUE
                 /\ UNCHANGED reload_timers
       ELSE UNCHANGED <<pending_settings_reload, reload_timers>>
    /\ sup_op' = "settings"
    /\ UNCHANGED <<reconnect_attempts, reconnect_timer, timer_left, dongle_status, carplay_node,
                   phone_connected, failed_signals, connect_timers, audio_vars>>

\* _reload_device(), when its single-shot timer expires
reload_device ==
    /\ reload_timers > 0
    /\ reload_timers' = reload_timers - 1
    /\ IF carplay_node
       THEN /\ disconnected
            /\ connect_timers' = Scheduled(connect_timers, 2000)
       ELSE UNCHANGED <<carplay_node, dongle_status, connect_timers, audio_vars>>
    /\ sup_op' = "reload"
    /\ UNCHANGED <<reconnect_attempts, reconnect_timer, timer_left, phone_connected,
                   pending_settings_reload, failed_signals>>

(***************************************************************************)
(* MessageHeader (messages.py).  A 32-bit unsigned value is held as its two *)
(* 16-bit halves [hi, lo], value = hi * 65536 + lo.                         *)
(***************************************************************************)
U32(hi, lo) == [hi |-> hi, lo |-> lo]

\* class MessageType(IntEnum): the known type codes
MessageTypes ==
    {1, 2, 3, 4, 5, 6, 7, 8, 9, 15, 21, 10, 12, 13, 14, 18, 20, 23, 24, 25,
     35, 36, 37, 38, 42, 153, 170, 204}

\* MessageHeader.DATA_LENGTH = 16
DATA_LENGTH == 16

\* MessageHeader.MAGIC = 0x55aa55aa
MAGIC == U32(21930, 21930)

\* payload lengths tried: 0, 1, 255, 256, 65535, 65536, 0x12345678, 2^32 - 1
ByteLengths ==
    {U32(0, 0), U32(0, 1), U32(0, 255), U32(0, 256), U32(0, 65535), U32(1, 0),
     U32(4660, 22136), U32(65535, 65535)}

\* struct.pack with the bytes in big-endian order
pack_u32_be(v) == <<v.hi \div 256, v.hi % 256, v.lo \div 256, v.lo % 256>>

\* struct.pack('<I', v): four bytes, least significant first
pack_u32(v) == <<v.lo % 256, v.lo \div 256, v.hi % 256, v.hi \div 256>>

\* struct.unpack('<I', b)[0]
unpack_u32(b) == U32(b[3] + 256 * b[4], b[1] + 256 * b[2])

\* a ^ b on the low `bits` bits
RECURSIVE Xor(_, _, _)
Xor(a, b, bits) ==
    IF bits = 0 THEN 0
    ELSE (((a % 2) + (b % 2)) % 2) + 2 * Xor(a \div 2, b \div 2, bits - 1)

\* ((message_type ^ -1) & 0xffffffff)
type_check_of(t) == U32(Xor(t.hi, 65535, 16), Xor(t.lo, 65535, 16))

\* MessageHeader.as_buffer(message_type, byte_length)
as_buffer(message_type, byte_length) ==
    pack_u32(MAGIC) \o pack_u32(byte_length) \o pack_u32(U32(0, message_type))
        \o pack_u32(type_check_of(U32(0, message_type)))

HeaderBuildError == [ok |-> FALSE, error |-> "HeaderBuildError"]
UnknownTypeError == [ok |-> FALSE, error |-> "ValueError"]

\* from_buffer without the comparison of the type-check field
from_buffer_unchecked(buf) ==
    IF Len(buf) # DATA_LENGTH THEN HeaderBuildError
    ELSE LET magic == unpack_u32(SubSeq(buf, 1, 4))
             length == unpack_u32(SubSeq(buf, 5, 8))
             msg_type_raw == unpack_u32(SubSeq(buf, 9, 12))
         IN  IF magic # MAGIC THEN HeaderBuildError
             ELSE IF ~(msg_type_raw.hi = 0 /\ msg_type_raw.lo \in MessageTypes)
                  THEN UnknownTypeError
             ELSE [ok |-> TRUE, length |-> length, type |-> msg_type_raw.lo]

\* MessageHeader.from_buffer(buffer)
from_buffer(buf) ==
    IF Len(buf) # DATA_LENGTH THEN HeaderBuildError
    ELSE LET magic == unpack_u32(SubSeq(buf, 1, 4))
             length == unpack_u32(SubSeq(buf, 5, 8))
             msg_type_raw == unpack_u32(SubSeq(buf, 9, 12))
             type_check == unpack_u32(SubSeq(buf, 13, 16))
         IN  IF magic # MAGIC THEN HeaderBuildError
             ELSE IF type_check # type_check_of(msg_type_raw) THEN HeaderBuildError
             ELSE IF ~(msg_type_raw.hi = 0 /\ msg_type_raw.lo \in MessageTypes)
                  THEN UnknownTypeError
             ELSE [ok |-> TRUE, length |-> length, type |-> msg_type_raw.lo]

HdrInit ==
    /\ hdr_stage = "idle"
    /\ hdr_type = 0
    /\ hdr_length = U32(0, 0)
    /\ hdr_buffer = <<>>
    /\ hdr_result = [ok |-> FALSE, error |-> "none"]

\* a caller builds a header: MessageHeader.as_buffer(message_type, byte_length)
build_header(message_type, byte_length) ==
    /\ hdr_stage' = "encoded"
    /\ hdr_type' = message_type
    /\ hdr_length' = byte_length
    /\ hdr_buffer' = as_buffer(message_type, byte_length)
    /\ hdr_result' = [ok |-> FALSE, error |-> "none"]

\* type codes that arrive on the wire: three known ones and three that are
\* not members of MessageType (0x00, 0x0b, 0xff)
WireTypes == {2, 7, 170, 0, 11, 255}

\* payload lengths that arrive on the wire
WireLengths == {U32(0, 0), U32(0, 256), U32(65535, 65535)}

\* values a damaged byte is changed by (modulo 256)
ByteDeltas == {1, 128}

\* what happened to a header on its way: nothing, a short or a long read, or
\* one byte at position pos changed by delta
NoDamage == [kind |-> "none", pos |-> 0, delta |-> 0]
WireDamage ==
    {NoDamage, [kind |-> "short", pos |-> 0, delta |-> 0],
     [kind |-> "long", pos |-> 0, delta |-> 0], [kind |-> "empty", pos |-> 0, delta |-> 0]}
    \cup [kind : {"byte"}, pos : 1..16, delta : ByteDeltas]

\* the bytes the IN endpoint returns for a header of the given type and length
wire_bytes(raw_type, byte_length, damage) ==
    LET sent == as_buffer(raw_type, byte_length)
    IN  CASE damage.kind = "none" -> sent
          [] damage.kind = "short" -> SubSeq(sent, 1, 15)
          [] damage.kind = "long" -> Append(sent, 0)
          [] damage.kind = "empty" -> <<>>
          [] damage.kind = "byte" ->
                [sent EXCEPT ![damage.pos] = (@ + damage.delta) % 256]

\* bytes read from the IN endpoint are parsed: MessageHeader.from_buffer(
\* bytes(header_data)) in DongleDriver._read_loop
receive_header(raw_type, byte_length, damage) ==
    /\ hdr_stage' = "received"
    /\ hdr_type' = raw_type
    /\ hdr_length' = byte_length
    /\ hdr_buffer' = wire_bytes(raw_type, byte_length, damage)
    /\ hdr_result' = from_buffer(hdr_buffer')

\* the bytes are parsed back: MessageHeader.from_buffer(buffer)
parse_header ==
    /\ hdr_stage = "encoded"
    /\ hdr_stage' = "decoded"
    /\ hdr_result' = from_buffer(hdr_buffer)
    /\ UNCHANGED <<hdr_type, hdr_length, hdr_buffer>>

(***************************************************************************)
(* DongleDriver (src/core/dongle_driver.py).  Three threads touch the      *)
(* driver without a lock: the caller of initialise/start/send/close, the   *)
(* read loop and the heartbeat loop.  Each action is one stretch of code   *)
(* between two points where another thread can run and change what the     *)
(* stretch has tested: the loop conditions and the blocking USB calls.      *)
(***************************************************************************)
\* DongleDriver.MAX_ERROR_COUNT = 20
MAX_ERROR_COUNT == 20

\* the read loop reads at most MaxMessages messages
MaxMessages == 2
\* the counters of failure notifications and heartbeats stop at these
MaxFailures == 1
MaxHeartbeats == 1

\* how a header-and-payload read of one loop iteration can end
ReadOutcomes ==
    {"message",          \* a message object was built
     "no_message",       \* to_message returned None: HeartBeat, no payload
                         \* or a type without a message class
     "undecodable",      \* to_message returned None: the payload parser raised
     "unknown_type",     \* from_buffer raised ValueError
     "bad_header",       \* from_buffer raised HeaderBuildError
     "timeout",          \* usb.core.USBTimeoutError
     "usb_gone",         \* usb.core.USBError with the device-gone signature
     "usb_overflow",     \* usb.core.USBError "Overflow", as the USB library
                         \* (pyusb, setup.py) reports an endpoint overflow
     "usb_pipe",         \* usb.core.USBError "Pipe error", as the library
                         \* reports a stalled endpoint
     "usb_error",        \* any other usb.core.USBError
     "overflow_flushed", \* OSError "Overflow" that is no USBError, endpoint
                         \* drained and cleared
     "overflow_stuck",   \* OSError "Overflow" that is no USBError, clearing
                         \* the endpoint failed
     "pipe_error",       \* OSError "Pipe error" that is no USBError
     "os_error",         \* any other OSError
     "exception"}        \* any other exception

\* a read timeout counted like the other USB errors
counts_timeout_too(outcome) ==
    outcome \in {"bad_header", "usb_error", "usb_overflow", "usb_pipe",
                 "overflow_stuck", "pipe_error", "os_error", "exception",
                 "timeout"}

\* the outcomes after which the loop executes self.error_count += 1
counts_as_error(outcome) ==
    outcome \in {"bad_header", "usb_error", "usb_overflow", "usb_pipe",
                 "overflow_stuck", "pipe_error", "os_error", "exception"}

\* the endpoint recovery the except clauses of the read loop perform: the
\* drain loop and usb.util.clear_halt of `except OSError`, which comes after
\* `except usb.core.USBError`
read_recovery(outcome) ==
    CASE outcome = "overflow_flushed" -> "drain_clear"
      [] outcome = "overflow_stuck" -> "drain_clear_failed"
      [] outcome = "pipe_error" -> "clear"
      [] OTHER -> "none"

\* how out_ep.write can end in send(): all bytes written, USBError with the
\* device-gone signature, or any other failure (another USBError, another
\* exception, a short write), after which send() only returns False
SendOutcomes == {"ok", "gone", "usb_error"}

\* how a read or a write can end once the dongle has left the bus
AbsentOutcomes ==
    {"usb_gone", "gone", "usb_error", "pipe_error", "os_error", "exception"}

\* the outcome is one the bus can produce now
possible(outcome) == usb_present \/ outcome \in AbsentOutcomes

\* payload bytes an iteration can leave unread: the length a header of
\* unknown type declares, or the unread rest of an interrupted payload
UnknownLengths == {0, 8}

\* how the 16-byte header read can end when the payload of a skipped header
\* is still waiting in the IN endpoint: a payload of at most 16 bytes is
\* taken for a header and refused, a longer one overflows the read
stale_outcomes(waiting) ==
    (IF waiting <= DATA_LENGTH
     THEN {"bad_header"}
     ELSE {"usb_overflow", "overflow_flushed", "overflow_stuck"})
    \cup {"usb_gone", "usb_error", "usb_pipe", "pipe_error", "os_error",
          "exception"}

\* the outcomes that can end the chunked payload read before `remaining`
\* is 0: in_ep.read(chunk_size, timeout=2000) raised, and the except clause
\* goes on with the next iteration
interrupts_payload(outcome) ==
    outcome \in {"timeout", "usb_error", "usb_pipe", "pipe_error", "os_error",
                 "exception"}

\* except ValueError: continue -- the bytes a header of unknown type
\* declared stay in the IN endpoint; so does the rest of a payload whose
\* chunked read was interrupted (length: the bytes not read, 0 when the
\* header read itself failed)
left_unread(outcome, length) ==
    IF outcome = "unknown_type" \/ interrupts_payload(outcome)
    THEN length ELSE 0

\* the device-gone test of send() left out
send_detects_gone_never(outcome) == FALSE

\* "No such device" in error_str or "Entity not found" in error_str or
\* err.errno == 19
send_detects_gone(outcome) == outcome = "gone"

\* the threshold test made after the first error already
error_limit_reached_at_once(count) == count >= 1

\* self.error_count >= self.MAX_ERROR_COUNT
error_limit_reached(count) == count >= MAX_ERROR_COUNT

\* the message put in front of the ones delivered before it
dispatch_in_front(log, message) == <<message>> \o log

\* for callback in self._message_callbacks: callback(message)
dispatch(log, message) == Append(log, message)

\* if self._read_thread and self._read_thread != current_thread: the thread
\* close() waits for
joins(thread, current_thread) == thread # current_thread

\* send(): if not self.device: return False
send_without_device == "no_device"

DrvOp(name, outcome, notified) ==
    [op |-> name, outcome |-> outcome, notified |-> notified,
     recovery |-> IF name = "read" THEN read_recovery(outcome) ELSE "none"]

\* for callback in self._failure_callbacks: callback()
notify_failure == failures' = Min(failures + 1, MaxFailures)

DrvInit ==
    /\ device = FALSE
    /\ running = FALSE
    /\ error_count = 0
    /\ caller = "new"
    /\ read_thread = "none"
    /\ heartbeat_thread = "none"
    /\ in_hand = 0
    /\ messages_read = 0
    /\ delivered = <<>>
    /\ failures = 0
    /\ heartbeats = 0
    /\ drv_op = DrvOp("init", "none", FALSE)
    /\ usb_present = TRUE
    /\ closing = "none"
    /\ pending_payload = 0
    /\ config = FALSE

\* DongleDriver.initialise(): the device is found and claimed, or the call
\* raises (close() has then cleared the handle again)
initialise(found) ==
    /\ caller = "new"
    /\ device' = found
    /\ caller' = IF found THEN "initialised" ELSE "aborted"
    /\ drv_op' = DrvOp("initialise", IF found THEN "ok" ELSE "raised", FALSE)
    /\ UNCHANGED <<running, error_count, read_thread, heartbeat_thread,
                   in_hand, messages_read, delivered, failures, heartbeats,
                   usb_present, closing, pending_payload, config>>

\* DongleDriver.start(config), up to the first initialisation message; the
\* call raises DriverStateError when no device is held
driver_start ==
    /\ caller \in {"new", "initialised"}
    /\ IF device
       THEN /\ config' = TRUE
            /\ error_count' = 0
            /\ running' = TRUE
            /\ caller' = "starting"
            /\ drv_op' = DrvOp("start", "ok", FALSE)
       ELSE /\ caller' = IF caller = "new" THEN "new" ELSE "aborted"
            /\ drv_op' = DrvOp("start", "raised", FALSE)
            /\ UNCHANGED <<error_count, running, config>>
    /\ UNCHANGED <<device, read_thread, heartbeat_thread, in_hand,
                   messages_read, delivered, failures, heartbeats, usb_present,
                   closing, pending_payload>>

\* DongleDriver.start(config), after the initialisation messages: the read
\* thread and the heartbeat thread are started
driver_spawn ==
    /\ caller = "starting"
    /\ caller' = "started"
    /\ read_thread' = "top"
    /\ heartbeat_thread' = "top"
    /\ drv_op' = DrvOp("spawn", "ok", FALSE)
    /\ UNCHANGED <<device, running, error_count, in_hand, messages_read,
                   delivered, failures, heartbeats, usb_present, closing,
                   pending_payload, config>>

\* the body of DongleDriver.send(message) for a write that ends as `outcome`
send_body(name, outcome) ==
    IF ~device
    THEN /\ drv_op' = DrvOp(name, send_without_device, FALSE)
         /\ UNCHANGED <<running, failures, usb_present>>
    ELSE /\ possible(outcome)
         /\ usb_present' = (usb_present /\ outcome # "gone")
         /\ IF send_detects_gone(outcome)
            THEN /\ running' = FALSE
                 /\ notify_failure
                 /\ drv_op' = DrvOp(name, outcome, TRUE)
            ELSE /\ drv_op' = DrvOp(name, outcome, FALSE)
                 /\ UNCHANGED <<running, failures>>

\* what send() returned in the step just made
send_returned == drv_op.outcome = "ok"

\* DongleDriver.send(message) called by the starter (initialisation
\* messages) or by a user of the driver (keys, touches, audio), at any time
driver_send(outcome) ==
    /\ send_body("send", outcome)
    /\ UNCHANGED <<device, error_count, caller, read_thread, heartbeat_thread,
                   in_hand, messages_read, delivered, heartbeats, closing,
                   pending_payload, config>>

\* DongleDriver.update_video_settings(width, height, dpi): DriverStateError
\* without a config, else the config is updated and two frames are sent,
\* their writes ending as first and second
update_video_settings(first, second) ==
    /\ IF ~config
       THEN /\ drv_op' = DrvOp("update_video_settings", "raised", FALSE)
            /\ UNCHANGED <<running, failures, usb_present>>
       ELSE IF ~device
       THEN /\ drv_op' = DrvOp("update_video_settings", send_without_device,
                               FALSE)
            /\ UNCHANGED <<running, failures, usb_present>>
       ELSE LET gone1 == send_detects_gone(first)
                gone2 == send_detects_gone(second)
                rounds == (IF gone1 THEN 1 ELSE 0) + (IF gone2 THEN 1 ELSE 0)
            IN  /\ possible(first)
                /\ first = "gone" => second \in AbsentOutcomes
                /\ possible(second)
                /\ usb_present' =
                       (usb_present /\ first # "gone" /\ second # "gone")
                /\ running' = (running /\ ~gone1 /\ ~gone2)
                /\ failures' = Min(failures + rounds, MaxFailures)
                /\ drv_op' = DrvOp("update_video_settings",
                                   IF gone1 \/ gone2 THEN "gone" ELSE "sent",
                                   gone1 \/ gone2)
    /\ UNCHANGED <<device, error_count, caller, read_thread, heartbeat_thread,
                   in_hand, messages_read, delivered, heartbeats, closing,
                   pending_payload, config>>

\* DongleDriver.close() up to the joins, called from any thread at any time
\* (by "caller") or by a message subscriber on the read thread (by "read"):
\* the flag is cleared
close_begin(by) ==
    /\ closing = "none"
    /\ by = "read" => read_thread = "dispatching"
    /\ closing' = by
    /\ running' = FALSE
    /\ drv_op' = DrvOp("close_begin", by, FALSE)
    /\ UNCHANGED <<device, error_count, caller, read_thread, heartbeat_thread,
                   in_hand, messages_read, delivered, failures, heartbeats,
                   usb_present, pending_payload, config>>

\* DongleDriver.close() from the joins on: each thread other than the
\* current one is waited for until it has ended or two seconds have passed,
\* then the device and the endpoints are released; Thread.join raises
\* RuntimeError when asked to join the current thread
close_end ==
    /\ closing # "none"
    /\ closing' = "none"
    /\ LET joined == {t \in {"read", "heartbeat"} :
                         /\ (IF t = "read" THEN read_thread
                                           ELSE heartbeat_thread) # "none"
                         /\ joins(t, closing)}
       IN  IF closing \in joined
           THEN /\ drv_op' = DrvOp("close", "raised", FALSE)
                /\ UNCHANGED <<device, pending_payload>>
           ELSE /\ device' = FALSE
                /\ pending_payload' = 0
                /\ drv_op' = DrvOp("close", "ok", FALSE)
    /\ UNCHANGED <<running, error_count, caller, read_thread, heartbeat_thread,
                   in_hand, messages_read, delivered, failures, heartbeats,
                   usb_present, config>>

\* _read_loop: the loop condition and the threshold test at the top
read_loop_check ==
    /\ read_thread = "top"
    /\ IF ~(running /\ device)
       THEN /\ read_thread' = "done"
            /\ drv_op' = DrvOp("read_check", "stopped", FALSE)
            /\ UNCHANGED <<running, failures>>
       ELSE IF error_limit_reached(error_count)
       THEN /\ running' = FALSE
            /\ notify_failure
            /\ read_thread' = "done"
            /\ drv_op' = DrvOp("read_check", "max_errors", TRUE)
       ELSE /\ read_thread' = "reading"
            /\ drv_op' = DrvOp("read_check", "continue", FALSE)
            /\ UNCHANGED <<running, failures>>
    /\ UNCHANGED <<device, error_count, caller, heartbeat_thread, in_hand,
                   messages_read, delivered, heartbeats, usb_present, closing,
                   pending_payload, config>>

\* _read_loop: the header and payload reads of one iteration end as
\* `outcome`; length: the payload bytes the iteration leaves unread, which
\* is the length the header declares when its type is unknown, and the rest
\* of the payload when a chunk read raised
read_loop_read(outcome, length) ==
    /\ read_thread = "reading"
    /\ outcome = "message" => messages_read < MaxMessages
    /\ possible(outcome)
    /\ pending_payload > 0 => outcome \in stale_outcomes(pending_payload)
    /\ left_unread(outcome, length) = length
    /\ usb_present' = (usb_present /\ outcome # "usb_gone")
    /\ drv_op' = DrvOp("read", outcome, outcome = "usb_gone")
    /\ pending_payload' =
           IF outcome \in {"bad_header", "usb_overflow", "overflow_flushed",
                           "overflow_stuck"}
           THEN 0
           ELSE IF pending_payload > 0 THEN pending_payload
           ELSE left_unread(outcome, length)
    /\ IF outcome = "usb_gone"
       THEN /\ running' = FALSE
            /\ notify_failure
            /\ read_thread' = "done"
            /\ UNCHANGED <<error_count, in_hand, messages_read>>
       ELSE IF outcome = "message"
       THEN /\ error_count' = 0
            /\ messages_read' = messages_read + 1
            /\ in_hand' = messages_read + 1
            /\ read_thread' = "dispatching"
            /\ UNCHANGED <<running, failures>>
       ELSE /\ error_count' = IF counts_as_error(outcome)
                              THEN error_count + 1 ELSE error_count
            /\ read_thread' = "top"
            /\ UNCHANGED <<running, failures, in_hand, messages_read>>
    /\ UNCHANGED <<device, caller, heartbeat_thread, delivered, heartbeats,
                   closing, config>>

\* _read_loop: for callback in self._message_callbacks: callback(message);
\* a subscriber that raises is counted as an error of the loop
read_loop_dispatch(raised) ==
    /\ read_thread = "dispatching"
    /\ closing # "read"
    /\ delivered' = dispatch(delivered, in_hand)
    /\ in_hand' = 0
    /\ error_count' = IF raised THEN error_count + 1 ELSE error_count
    /\ read_thread' = "top"
    /\ drv_op' = DrvOp("dispatch", IF raised THEN "raised" ELSE "ok", FALSE)
    /\ UNCHANGED <<device, running, caller, heartbeat_thread, messages_read,
                   failures, heartbeats, usb_present, closing, pending_payload,
                   config>>

\* _heartbeat_loop: while self._running
heartbeat_loop_check ==
    /\ heartbeat_thread = "top"
    /\ heartbeat_thread' = IF running THEN "sending" ELSE "done"
    /\ drv_op' = DrvOp("heartbeat_check", IF running THEN "continue" ELSE "stopped",
                       FALSE)
    /\ UNCHANGED <<device, running, error_count, caller, read_thread, in_hand,
                   messages_read, delivered, failures, heartbeats, usb_present,
                   closing, pending_payload, config>>

\* _heartbeat_loop: self.send(HeartBeat()); time.sleep(2)
heartbeat_loop_send(outcome) ==
    /\ heartbeat_thread = "sending"
    /\ send_body("heartbeat", outcome)
    /\ heartbeats' = IF device /\ outcome = "ok"
                     THEN Min(heartbeats + 1, MaxHeartbeats) ELSE heartbeats
    /\ heartbeat_thread' = "top"
    /\ UNCHANGED <<device, error_count, caller, read_thread, in_hand,
                   messages_read, delivered, closing, pending_payload, config>>

(***************************************************************************)
(* CarplayNode (src/pycarplay/core/carplay_node.py): the pairing timeout   *)
(* and the frame keep-alive.  Four kinds of thread run its code without a   *)
(* lock: the thread running start(), the driver's read thread (message      *)
(* handlers), the Timer threads, and the caller of stop().  A Timer fires   *)
(* unless it was cancelled before; send_frame first tests the active flag   *)
(* and then sends and re-arms; start() first starts the driver and then     *)
(* arms the pairing timeout; stop() first clears the timers and then        *)
(* closes the driver.                                                       *)
(***************************************************************************)
MaxNodeMessages == 3
MaxSends == 2

\* the messages _on_driver_message tells apart
MessageKinds ==
    {"Plugged_CarPlay", "Plugged_AndroidAuto", "Plugged_HiCar", "Unplugged",
     "Video", "Audio", "Media", "Command"}

plugged_phone(kind) ==
    CASE kind = "Plugged_CarPlay" -> "CarPlay"
      [] kind = "Plugged_AndroidAuto" -> "AndroidAuto"
      [] kind = "Plugged_HiCar" -> "HiCar"
      [] OTHER -> "none"

\* every phone type given the CarPlay interval
frame_interval_for_all(phone_type) == 5000

\* self.config.phone_config.get(message.phone_type) and its frame_interval
\* under DongleConfig.__post_init__; 0 stands for None
frame_interval_of(phone_type) ==
    IF phone_type = "CarPlay" THEN 5000 ELSE 0

\* a pairing Timer that ignores cancel()
pair_timer_cancel_ignored(timer, referred) == timer

\* _clear_pair_timeout: if self._pair_timeout: self._pair_timeout.cancel()
pair_timer_cancelled(timer, referred) ==
    IF referred /\ timer = "armed" THEN "cancelled" ELSE timer

\* the handlers that call self._clear_pair_timeout()
clears_pair_timeout(kind) ==
    plugged_phone(kind) # "none" \/ kind \in {"Video", "Audio", "Media"}

\* the handlers that call self._clear_frame_interval()
clears_frame_interval(kind) ==
    plugged_phone(kind) # "none" \/ kind = "Unplugged"

\* if phone_config and phone_config.frame_interval:
\*     self._start_frame_interval(...)
starts_frame_interval(kind) == frame_interval_of(plugged_phone(kind)) # 0

\* dongle_driver.send(SendCommand(...)): written only while the device is open
written(count) == IF device THEN Min(count + 1, MaxSends) ELSE count

NodeOp(name, kind) == [op |-> name, kind |-> kind]

NodeInit ==
    /\ node_pc = "new"
    /\ pair_timeout = FALSE
    /\ pair_timer = "none"
    /\ frame_interval_active = FALSE
    /\ frame_interval = "none"
    /\ stray_armed = 0
    /\ stray_expired = 0
    /\ node_in_hand = "none"
    /\ node_messages = 0
    /\ node_stop = "no"
    /\ data_handled = FALSE
    /\ wifi_pairs = 0
    /\ frames_sent = 0
    /\ failure_events = 0
    /\ node_op = NodeOp("init", "none")

\* how dongle_driver.initialise() and dongle_driver.start() can end in
\* CarplayNode.start()
StartOutcomes ==
    {"ok",                 \* both returned
     "initialise_raised",  \* no device found, or it could not be configured
     "start_raised"}       \* an initialisation message or a thread could
                           \* not be created

\* an exception of start() swallowed without a notification
start_reports_nothing(raised) == 0

\* except Exception as err: self._notify(MessageType.FAILURE): the FAILURE
\* events start() gives to onmessage
start_reports(raised) == IF raised THEN 1 ELSE 0

\* CarplayNode.start(): dongle_driver.initialise() and dongle_driver.start();
\* an exception is reported as FAILURE and start() returns False
node_start_driver(outcome) ==
    /\ node_pc = "new"
    /\ caller = "new"
    /\ IF outcome = "ok"
       THEN /\ device' = TRUE
            /\ running' = TRUE
            /\ read_thread' = "top"
            /\ node_pc' = "driver_up"
       ELSE IF outcome = "start_raised"
       THEN /\ device' = TRUE
            /\ running' = TRUE
            /\ node_pc' = "failed"
            /\ UNCHANGED read_thread
       ELSE /\ node_pc' = "failed"
            /\ UNCHANGED <<device, running, read_thread>>
    /\ failure_events' = failure_events + start_reports(outcome # "ok")
    /\ node_op' = NodeOp("start_driver", IF outcome = "ok" THEN "ok" ELSE "raised")
    /\ UNCHANGED <<pair_timeout, pair_timer, frame_interval_active,
                   frame_interval, stray_armed, stray_expired, node_in_hand,
                   node_messages, node_stop, data_handled, wifi_pairs,
                   frames_sent, drv_rest>>

\* CarplayNode.start(): self._pair_timeout = threading.Timer(...); .start();
\* armed: the Timer thread could be started, else .start() raises
node_start_arm(armed) ==
    /\ node_pc = "driver_up"
    /\ node_pc' = IF armed THEN "started" ELSE "failed"
    /\ pair_timeout' = TRUE
    /\ pair_timer' = IF armed THEN "armed" ELSE "unstarted"
    /\ failure_events' = failure_events + start_reports(~armed)
    /\ node_op' = NodeOp("start_arm", IF armed THEN "ok" ELSE "raised")
    /\ UNCHANGED <<frame_interval_active, frame_interval, stray_armed,
                   stray_expired, node_in_hand, node_messages, node_stop,
                   data_handled, wifi_pairs, frames_sent, device, running,
                   read_thread, drv_rest>>

\* the read thread finds the driver running and reads a message of `kind`
node_read(kind) ==
    /\ read_thread = "top"
    /\ node_pc \in {"driver_up", "started", "failed"}
    /\ running /\ device
    /\ node_messages < MaxNodeMessages
    /\ read_thread' = "dispatching"
    /\ node_in_hand' = kind
    /\ node_messages' = node_messages + 1
    /\ node_op' = NodeOp("read", kind)
    /\ UNCHANGED <<failure_events,
                   node_pc, pair_timeout, pair_timer, frame_interval_active,
                   frame_interval, stray_armed, stray_expired, node_stop,
                   data_handled, wifi_pairs, frames_sent, device, running,
                   drv_rest>>

\* the read thread finds the driver stopped and ends
node_read_stopped ==
    /\ read_thread = "top"
    /\ node_pc \in {"driver_up", "started", "failed"}
    /\ ~(running /\ device)
    /\ read_thread' = "done"
    /\ node_op' = NodeOp("read_stopped", "none")
    /\ UNCHANGED <<failure_events,
                   node_pc, pair_timeout, pair_timer, frame_interval_active,
                   frame_interval, stray_armed, stray_expired, node_in_hand,
                   node_messages, node_stop, data_handled, wifi_pairs,
                   frames_sent, device, running, drv_rest>>

\* _clear_frame_interval and _start_frame_interval as the handler of `kind`
\* runs them: the flag, the Timer referred to, the Timers left behind and
\* the "frame" commands written
handle_frame_interval(kind) ==
    IF clears_frame_interval(kind)
    THEN /\ stray_expired' =
                stray_expired + (IF frame_interval = "expired" THEN 1 ELSE 0)
         /\ IF starts_frame_interval(kind)
            THEN /\ frame_interval_active' = TRUE
                 /\ frames_sent' = written(frames_sent)
                 /\ frame_interval' = "armed"
            ELSE /\ frame_interval_active' = FALSE
                 /\ frame_interval' = "none"
                 /\ UNCHANGED frames_sent
    ELSE UNCHANGED <<frame_interval_active, frame_interval, stray_expired,
                     frames_sent>>

\* _on_driver_message(message), called by the read thread for the message it
\* holds: _handle_plugged, _handle_unplugged, _handle_video, _handle_audio,
\* _handle_media, _handle_command
node_dispatch ==
    /\ read_thread = "dispatching"
    /\ node_pc \in {"driver_up", "started", "failed"}
    /\ IF clears_pair_timeout(node_in_hand)
       THEN /\ pair_timer' = pair_timer_cancelled(pair_timer, pair_timeout)
            /\ pair_timeout' = FALSE
            /\ data_handled' = TRUE
       ELSE UNCHANGED <<pair_timer, pair_timeout, data_handled>>
    /\ handle_frame_interval(node_in_hand)
    /\ read_thread' = "top"
    /\ node_in_hand' = "none"
    /\ node_op' = NodeOp("handle", node_in_hand)
    /\ UNCHANGED <<failure_events,
                   node_pc, stray_armed, node_messages, node_stop, wifi_pairs,
                   device, running, drv_rest>>

\* the pairing Timer fires, not having been cancelled:
\* lambda: self.dongle_driver.send(SendCommand('wifiPair'))
pair_timer_fire ==
    /\ pair_timer = "armed"
    /\ pair_timer' = "fired"
    /\ wifi_pairs' = written(wifi_pairs)
    /\ node_op' = NodeOp("pair_send", IF device THEN "written" ELSE "no_device")
    /\ UNCHANGED <<failure_events,
                   node_pc, pair_timeout, frame_interval_active,
                   frame_interval, stray_armed, stray_expired, node_in_hand,
                   node_messages, node_stop, data_handled, frames_sent, device,
                   running, read_thread, drv_rest>>

\* threading.Timer.run of a frame Timer, and send_frame's test of the flag:
\* the Timer the node refers to (referred) or one left behind
frame_timer_expire(referred) ==
    /\ IF referred
       THEN /\ frame_interval = "armed"
            /\ frame_interval' =
                   IF frame_interval_active THEN "expired" ELSE "done"
            /\ UNCHANGED <<stray_armed, stray_expired>>
       ELSE /\ stray_armed > 0
            /\ stray_armed' = stray_armed - 1
            /\ stray_expired' =
                   stray_expired + (IF frame_interval_active THEN 1 ELSE 0)
            /\ UNCHANGED frame_interval
    /\ node_op' = NodeOp("frame_expire",
                         IF frame_interval_active THEN "active" ELSE "inactive")
    /\ UNCHANGED <<failure_events,
                   node_pc, pair_timeout, pair_timer, frame_interval_active,
                   node_in_hand, node_messages, node_stop, data_handled,
                   wifi_pairs, frames_sent, device, running, read_thread,
                   drv_rest>>

\* send_frame after the test: the "frame" command is sent, a new Timer is
\* created, stored in self._frame_interval and started
frame_timer_send(referred) ==
    /\ IF referred
       THEN /\ frame_interval = "expired"
            /\ UNCHANGED <<stray_armed, stray_expired>>
       ELSE /\ stray_expired > 0
            /\ stray_armed' =
                   stray_armed + (IF frame_interval = "armed" THEN 1 ELSE 0)
            /\ stray_expired' =
                   (stray_expired - 1) + (IF frame_interval = "expired" THEN 1 ELSE 0)
    /\ frame_interval' = "armed"
    /\ frames_sent' = written(frames_sent)
    /\ node_op' = NodeOp("frame_send", IF device THEN "written" ELSE "no_device")
    /\ UNCHANGED <<failure_events,
                   node_pc, pair_timeout, pair_timer, frame_interval_active,
                   node_in_hand, node_messages, node_stop, data_handled,
                   wifi_pairs, device, running, read_thread, drv_rest>>

\* CarplayNode.stop(): _clear_pair_timeout(), _clear_frame_interval(), and
\* dongle_driver.close() up to the joins of the two threads
node_stop_begin ==
    /\ node_stop = "no"
    /\ node_stop' = "closing"
    /\ pair_timer' = pair_timer_cancelled(pair_timer, pair_timeout)
    /\ pair_timeout' = FALSE
    /\ frame_interval_active' = FALSE
    /\ frame_interval' = "none"
    /\ stray_expired' =
           stray_expired + (IF frame_interval = "expired" THEN 1 ELSE 0)
    /\ running' = FALSE
    /\ node_op' = NodeOp("stop", "begin")
    /\ UNCHANGED <<failure_events,
                   node_pc, stray_armed, node_in_hand, node_messages,
                   data_handled, wifi_pairs, frames_sent, device, read_thread,
                   drv_rest>>

\* dongle_driver.close() after the joins: the device is released
node_stop_end ==
    /\ node_stop = "closing"
    /\ node_stop' = "closed"
    /\ device' = FALSE
    /\ node_op' = NodeOp("stop", "end")
    /\ UNCHANGED <<failure_events,
                   node_pc, pair_timeout, pair_timer, frame_interval_active,
                   frame_interval, stray_armed, stray_expired, node_in_hand,
                   node_messages, data_handled, wifi_pairs, frames_sent,
                   running, read_thread, drv_rest>>

(***************************************************************************)
(* AudioData (messages.py) and its handler in the session controller       *)
(* (carplay_node.py, _handle_audio and _handle_audio_command).             *)
(***************************************************************************)
\* the 12 bytes of decode_type, volume and audio_type
AUDIO_HEADER_LENGTH == 12

\* len(data) of the AudioData payloads received
MaxAudioLength == 21
AudioLengths == 0..MaxAudioLength

\* values of data[12] read as a signed byte
AudioBytes == {-128, -1, 0, 1, 3, 4, 5, 8, 9, 10, 17, 18, 127}

\* class AudioCommand(IntEnum)
AudioCommands == 1..17

AudioPhonecallStart == 4
AudioPhonecallStop == 5
AudioSiriStart == 8
AudioSiriStop == 9

\* create_message returned None
NoMessage == [class |-> "None"]

\* an AudioData instance; command 0, volume_duration FALSE and data -1
\* stand for None, data is otherwise the number of samples
AudioData(command, volume_duration, data) ==
    [class |-> "AudioData", command |-> command,
     volume_duration |-> volume_duration, data |-> data]

\* AudioData.__init__ with four trailing bytes unpacked as samples
audio_payload_no_duration(amount, byte) ==
    IF amount < 0 THEN NoMessage
    ELSE IF amount = 1
    THEN IF byte \in AudioCommands THEN AudioData(byte, FALSE, -1)
                                   ELSE NoMessage
    ELSE IF amount % 2 = 0 THEN AudioData(0, FALSE, amount \div 2)
    ELSE NoMessage

\* AudioData.__init__ as create_message calls it: an exception of the
\* constructor (struct.error on a short header or an odd number of sample
\* bytes, ValueError on a byte that is no AudioCommand) makes create_message
\* return None
audio_payload(amount, byte) ==
    IF amount < 0 THEN NoMessage
    ELSE IF amount = 1
    THEN IF byte \in AudioCommands THEN AudioData(byte, FALSE, -1)
                                   ELSE NoMessage
    ELSE IF amount = 4 THEN AudioData(0, TRUE, -1)
    ELSE IF amount % 2 = 0 THEN AudioData(0, FALSE, amount \div 2)
    ELSE NoMessage

\* create_message(header, data) for a header of type AudioData
create_audio_message(length, byte) ==
    IF length = 0 THEN NoMessage
    ELSE audio_payload(length - AUDIO_HEADER_LENGTH, byte)

\* _handle_audio_command with every start command taken for a microphone start
microphone_action_any_start(command) ==
    IF command \in {1, 4, 6, 8, 10, 12} THEN "start"
    ELSE IF command \in {AudioSiriStop, AudioPhonecallStop} THEN "stop"
    ELSE "none"

\* _handle_audio_command: the action the callback is called with
microphone_action(command) ==
    IF command \in {AudioSiriStart, AudioPhonecallStart} THEN "start"
    ELSE IF command \in {AudioSiriStop, AudioPhonecallStop} THEN "stop"
    ELSE "none"

AudInit ==
    /\ aud_stage = "idle"
    /\ aud_amount = 0
    /\ aud_byte = 0
    /\ aud_message = NoMessage
    /\ mic_registered = FALSE
    /\ mic_calls = <<>>
    /\ audio_events = 0
    /\ aud_op = [op |-> "init", ended |-> "none"]

\* carplay_node._microphone_callback = ... (main.py, before start() runs);
\* a node used without it keeps None
set_microphone_callback(registered) ==
    /\ aud_stage = "idle"
    /\ mic_registered' = registered
    /\ aud_op' = [op |-> "set_callback", ended |-> "returned"]
    /\ UNCHANGED <<aud_stage, aud_amount, aud_byte, aud_message, mic_calls,
                   audio_events>>

\* the read loop builds the message of an AudioData frame whose payload has
\* `length` bytes, the thirteenth being `byte`
receive_audio(length, byte) ==
    /\ aud_stage' = "decoded"
    /\ aud_amount' = length - AUDIO_HEADER_LENGTH
    /\ aud_byte' = IF length > AUDIO_HEADER_LENGTH THEN byte ELSE 0
    /\ aud_message' = create_audio_message(length, aud_byte')
    /\ mic_calls' = <<>>
    /\ audio_events' = 0
    /\ aud_op' = [op |-> "receive_audio", ended |-> "returned"]
    /\ UNCHANGED mic_registered

\* CarplayNode._handle_audio(message); callback_raises: the registered
\* callback raises when called
handle_audio(callback_raises) ==
    /\ aud_stage = "decoded"
    /\ aud_message # NoMessage
    /\ aud_stage' = "handled"
    /\ LET action == IF aud_message.command # 0
                     THEN microphone_action(aud_message.command)
                     ELSE "none"
           called == action # "none" /\ mic_registered
           raised == called /\ callback_raises
       IN  /\ mic_calls' = IF called THEN Append(mic_calls, action)
                                     ELSE mic_calls
           /\ audio_events' = IF raised THEN audio_events ELSE audio_events + 1
           /\ aud_op' = [op |-> "handle_audio",
                         ended |-> IF raised THEN "raised" ELSE "returned"]
    /\ UNCHANGED <<aud_amount, aud_byte, aud_message, mic_registered>>

(***************************************************************************)
(* SendTouch (src/protocol/sendable.py).  A coordinate is a fraction       *)
(* num/den with den > 0; int() truncates towards zero.                     *)
(***************************************************************************)
\* class TouchAction(IntEnum)
TouchActions == {14, 15, 16}

\* the scale of the encoded coordinates
TOUCH_SCALE == 10000

Fraction(num, den) == [num |-> num, den |-> den]

\* normalized coordinates given to send_touch, some outside [0, 1]
TouchValues ==
    {Fraction(-3, 2), Fraction(-1, 1), Fraction(-1, 30000), Fraction(0, 1),
     Fraction(1, 30000), Fraction(1, 10000), Fraction(1, 3), Fraction(1, 2),
     Fraction(2, 3), Fraction(29999, 30000), Fraction(1, 1),
     Fraction(30001, 30000), Fraction(3, 2)}

\* int(a / b) for b > 0: the quotient truncated towards zero
int_quotient(a, b) == IF a >= 0 THEN a \div b ELSE -((-a) \div b)

\* min(10000, value) without the lower limit
touch_clamp_upper_only(value) ==
    IF value > TOUCH_SCALE THEN TOUCH_SCALE ELSE value

\* max(0, min(10000, value))
touch_clamp(value) ==
    LET upper == IF value > TOUCH_SCALE THEN TOUCH_SCALE ELSE value
    IN  IF upper < 0 THEN 0 ELSE upper

\* max(0, min(10000, int(10000 * self.x)))
touch_coordinate(v) == touch_clamp(int_quotient(TOUCH_SCALE * v.num, v.den))

\* SendTouch.get_payload: the values packed as '<IIII'
get_payload(x, y, action) ==
    <<action, touch_coordinate(x), touch_coordinate(y), 0>>

TouchInit ==
    /\ touch_stage = "idle"
    /\ touch_x = Fraction(0, 1)
    /\ touch_y = Fraction(0, 1)
    /\ touch_action = 14
    /\ touch_payload = <<>>

\* CarplayNode.send_touch(x, y, action): SendTouch(x, y, action) serialised
send_touch(x, y, action) ==
    /\ touch_stage' = "encoded"
    /\ touch_x' = x
    /\ touch_y' = y
    /\ touch_action' = action
    /\ touch_payload' = get_payload(x, y, action)

(***************************************************************************)
(* AudioPlayer, the buffer lock.  Two threads run the player: the thread   *)
(* that calls playAudioData, stop and setSampleRate, and the callback      *)
(* thread of the output stream.  Each `with self._buffer_lock` block is    *)
(* two steps, so that a thread that did not wait for the lock would see    *)
(* the cursors half updated.  The rate stays the default rate.             *)
(***************************************************************************)
\* frames of one write
LockWriteFrames == {4, 8}

\* _min_buffer_samples after setSampleRate(default rate)
lock_min_buffer == prebuffer_configured(default_sample_rate)

Tuple(r, w, b) == [read_pos |-> r, write_pos |-> w, buffering |-> b]

\* entering the block without waiting for the lock
lock_not_awaited(owner) == TRUE

\* with self._buffer_lock: the block is entered once no thread holds the lock
lock_free(owner) == owner = "none"

\* the locked block of start() and stop(): _write_pos = 0, _read_pos = 0,
\* _buffering = True
serial_reset(t) == Tuple(0, 0, TRUE)

\* the locked block of setSampleRate: _write_pos = 0, _read_pos = 0
serial_configure(t) == Tuple(0, 0, t.buffering)

\* the locked block of playAudioData for a write of n frames
serial_write(t, n) ==
    LET available == get_available_samples(t.write_pos, t.read_pos)
        overflow == overflow_drop(available, n)
    IN  Tuple(IF overflow > 0 THEN (t.read_pos + overflow) % buffer_size
                              ELSE t.read_pos,
              write_advance(t.write_pos, n), t.buffering)

\* the locked block of _audio_callback for a pull of `frames` frames
serial_pull(t, frames) ==
    LET available == get_available_samples(t.write_pos, t.read_pos)
        skip == resync_skip(available, default_sample_rate)
        after_read == read_advance(t.read_pos, frames)
    IN  IF t.buffering /\ ~buffering_complete(available, lock_min_buffer)
        THEN t
        ELSE IF available >= frames
        THEN Tuple(IF skip > 0 THEN (after_read + skip) % buffer_size
                               ELSE after_read,
                   t.write_pos, FALSE)
        ELSE Tuple(t.read_pos, t.write_pos, FALSE)

LockInit ==
    /\ lock_owner = "none"
    /\ lk_write_pos = 0
    /\ lk_read_pos = 0
    /\ lk_buffering = TRUE
    /\ lk_stream = FALSE
    /\ producer_pc = "idle"
    /\ producer_n = 0
    /\ producer_restart = FALSE
    /\ callback_pc = "idle"
    /\ callback_frames = 0
    /\ callback_available = 0
    /\ serial = Tuple(0, 0, TRUE)

\* playAudioData(audio_data) up to its locked block: if not self._is_playing:
\* self.start()
lock_play_begin(n) ==
    /\ producer_pc = "idle"
    /\ producer_n' = n
    /\ producer_pc' = IF lk_stream THEN "write" ELSE "start_reset"
    /\ UNCHANGED <<lock_owner, lk_write_pos, lk_read_pos, lk_buffering,
                   lk_stream, producer_restart, callback_pc, callback_frames,
                   callback_available, serial>>

\* stop() up to its locked block: self._stream.stop() returns once the
\* callback in progress has returned
lock_stop_begin ==
    /\ producer_pc = "idle"
    /\ callback_pc = "idle"
    /\ lk_stream' = FALSE
    /\ producer_pc' = "stop_reset"
    /\ UNCHANGED <<lock_owner, lk_write_pos, lk_read_pos, lk_buffering,
                   producer_n, producer_restart, callback_pc, callback_frames,
                   callback_available, serial>>

\* setSampleRate(rate, channels) with another format, up to its locked
\* block: was_playing = self._is_playing; if was_playing: self.stop()
lock_configure_begin ==
    /\ producer_pc = "idle"
    /\ producer_restart' = lk_stream
    /\ IF lk_stream
       THEN /\ callback_pc = "idle"
            /\ lk_stream' = FALSE
            /\ producer_pc' = "stop_reset"
       ELSE /\ producer_pc' = "configure_reset"
            /\ UNCHANGED lk_stream
    /\ UNCHANGED <<lock_owner, lk_write_pos, lk_read_pos, lk_buffering,
                   producer_n, callback_pc, callback_frames,
                   callback_available, serial>>

\* the locked block of start(), stop() or setSampleRate is entered and the
\* write cursor is reset
lock_reset_enter ==
    /\ producer_pc \in {"start_reset", "stop_reset", "configure_reset"}
    /\ lock_free(lock_owner)
    /\ lock_owner' = "producer"
    /\ lk_write_pos' = 0
    /\ serial' = IF producer_pc = "configure_reset"
                 THEN serial_configure(serial) ELSE serial_reset(serial)
    /\ producer_pc' = CASE producer_pc = "start_reset" -> "start_reset_2"
                        [] producer_pc = "stop_reset" -> "stop_reset_2"
                        [] OTHER -> "configure_reset_2"
    /\ UNCHANGED <<lk_read_pos, lk_buffering, lk_stream, producer_n,
                   producer_restart, callback_pc, callback_frames,
                   callback_available>>

\* the rest of that block: the read cursor is reset, start() and stop() set
\* _buffering, and the lock is released; stop() inside setSampleRate is
\* followed by the block of setSampleRate, that one by start() if the player
\* was playing
lock_reset_exit ==
    /\ producer_pc \in {"start_reset_2", "stop_reset_2", "configure_reset_2"}
    /\ lock_owner' = "none"
    /\ lk_read_pos' = 0
    /\ lk_buffering' = IF producer_pc = "configure_reset_2"
                       THEN lk_buffering ELSE TRUE
    /\ producer_pc' =
           CASE producer_pc = "start_reset_2" -> "start_open"
             [] producer_pc = "stop_reset_2" ->
                    IF producer_restart THEN "configure_reset" ELSE "idle"
             [] OTHER -> IF producer_restart THEN "start_reset" ELSE "idle"
    /\ UNCHANGED <<lk_write_pos, lk_stream, producer_n, producer_restart,
                   callback_pc, callback_frames, callback_available, serial>>

\* start(): the output stream is created and started, or that fails;
\* playAudioData goes on to its write in either case
lock_stream_open(opened) ==
    /\ producer_pc = "start_open"
    /\ lk_stream' = opened
    /\ producer_restart' = FALSE
    /\ producer_pc' = IF producer_n > 0 THEN "write" ELSE "idle"
    /\ UNCHANGED <<lock_owner, lk_write_pos, lk_read_pos, lk_buffering,
                   producer_n, callback_pc, callback_frames,
                   callback_available, serial>>

\* the locked block of playAudioData is entered: the overflow test, which
\* moves the read cursor
lock_write_enter ==
    /\ producer_pc = "write"
    /\ lock_free(lock_owner)
    /\ lock_owner' = "producer"
    /\ LET available == get_available_samples(lk_write_pos, lk_read_pos)
           overflow == overflow_drop(available, producer_n)
       IN  lk_read_pos' = IF overflow > 0
                          THEN (lk_read_pos + overflow) % buffer_size
                          ELSE lk_read_pos
    /\ serial' = serial_write(serial, producer_n)
    /\ producer_pc' = "write_2"
    /\ UNCHANGED <<lk_write_pos, lk_buffering, lk_stream, producer_n,
                   producer_restart, callback_pc, callback_frames,
                   callback_available>>

\* the rest of that block: the frames are copied, the write cursor is moved
\* and the lock is released
lock_write_exit ==
    /\ producer_pc = "write_2"
    /\ lock_owner' = "none"
    /\ lk_write_pos' = write_advance(lk_write_pos, producer_n)
    /\ producer_n' = 0
    /\ producer_pc' = "idle"
    /\ UNCHANGED <<lk_read_pos, lk_buffering, lk_stream, producer_restart,
                   callback_pc, callback_frames, callback_available, serial>>

\* the locked block of _audio_callback is entered: available is computed and
\* the Buffering gate is passed, or the pull returns silence
lock_pull_enter(frames) ==
    /\ callback_pc = "idle"
    /\ lk_stream
    /\ lock_free(lock_owner)
    /\ serial' = serial_pull(serial, frames)
    /\ LET available == get_available_samples(lk_write_pos, lk_read_pos)
       IN  IF lk_buffering /\ ~buffering_complete(available, lock_min_buffer)
           THEN UNCHANGED <<lock_owner, lk_buffering, callback_pc,
                            callback_frames, callback_available>>
           ELSE /\ lock_owner' = "callback"
                /\ lk_buffering' = FALSE
                /\ callback_pc' = "pull_2"
                /\ callback_frames' = frames
                /\ callback_available' = available
    /\ UNCHANGED <<lk_write_pos, lk_read_pos, lk_stream, producer_pc,
                   producer_n, producer_restart>>

\* the rest of that block: the frames are copied out and the read cursor is
\* moved, or silence is output; the lock is released
lock_pull_exit ==
    /\ callback_pc = "pull_2"
    /\ lock_owner' = "none"
    /\ LET skip == resync_skip(callback_available, default_sample_rate)
           after_read == read_advance(lk_read_pos, callback_frames)
       IN  lk_read_pos' =
               IF callback_available >= callback_frames
               THEN IF skip > 0 THEN (after_read + skip) % buffer_size
                                ELSE after_read
               ELSE lk_read_pos
    /\ callback_pc' = "idle"
    /\ callback_frames' = 0
    /\ callback_available' = 0
    /\ UNCHANGED <<lk_write_pos, lk_buffering, lk_stream, producer_pc,
                   producer_n, producer_restart, serial>>

(***************************************************************************)
(* VideoDecoder.  The repository holds two classes of that name:           *)
(* src/video_decoder.py ("legacy") and                                     *)
(* src/src/pycarplay/video/video_decoder.py ("package").  decode_frame     *)
(* runs under the decoder's mutex, so each call is one step.               *)
(***************************************************************************)
\* self._max_consecutive_errors = 10
max_consecutive_errors == 10

\* decode_frame calls that raise, and frames decoded, before a reset()
MaxDecodeErrors == 12
MaxDecodedFrames == 2

DecoderImpls == {"legacy", "package"}

DecOp(name, emit) == [op |-> name, emitted |-> emit]

\* what one raising decode_frame adds to _consecutive_errors and to
\* _error_count: the legacy class has one `+= 1` for each, _handle_decode_error
\* of the package class has two
error_increment(impl) == IF impl = "package" THEN 2 ELSE 1

\* if self._consecutive_errors <= 5: print ...
\* elif self._consecutive_errors == self._max_consecutive_errors: emit
emits_too_many_errors(consecutive) ==
    /\ ~(consecutive <= 5)
    /\ consecutive = max_consecutive_errors

DecInit ==
    /\ dec_impl = "none"
    /\ dec_frame_count = 0
    /\ dec_error_count = 0
    /\ dec_consecutive_errors = 0
    /\ dec_run = 0
    /\ dec_emitted = 0
    /\ dec_op = DecOp("none", FALSE)

\* VideoDecoder.__init__
decoder_init(impl) ==
    /\ dec_impl = "none"
    /\ dec_impl' = impl
    /\ dec_frame_count' = 0
    /\ dec_error_count' = 0
    /\ dec_consecutive_errors' = 0
    /\ dec_run' = 0
    /\ dec_emitted' = 0
    /\ dec_op' = DecOp("init", FALSE)

\* decode_frame, the codec returned a frame: frameDecoded is emitted and
\* _consecutive_errors = 0
decode_frame_decoded ==
    /\ dec_impl # "none"
    /\ dec_frame_count < MaxDecodedFrames
    /\ dec_frame_count' = dec_frame_count + 1
    /\ dec_consecutive_errors' = 0
    /\ dec_run' = 0
    /\ dec_emitted' = 0
    /\ dec_op' = DecOp("frame", FALSE)
    /\ UNCHANGED <<dec_impl, dec_error_count>>

\* decode_frame, the codec took the packet and returned no frame: the loop
\* body does not run, return None; no counter changes
decode_frame_no_frame ==
    /\ dec_impl # "none"
    /\ dec_op' = DecOp("no_frame", FALSE)
    /\ UNCHANGED <<dec_impl, dec_frame_count, dec_error_count,
                   dec_consecutive_errors, dec_run, dec_emitted>>

\* decode_frame, av.Packet, codec.decode or the conversion raised
decode_frame_error ==
    /\ dec_impl # "none"
    /\ dec_error_count < MaxDecodeErrors * error_increment(dec_impl)
    /\ LET consecutive == dec_consecutive_errors + error_increment(dec_impl)
           emit == emits_too_many_errors(consecutive)
       IN  /\ dec_consecutive_errors' = consecutive
           /\ dec_error_count' = dec_error_count + error_increment(dec_impl)
           /\ dec_run' = dec_run + 1
           /\ dec_emitted' = dec_emitted + (IF emit THEN 1 ELSE 0)
           /\ dec_op' = DecOp("error", emit)
    /\ UNCHANGED <<dec_impl, dec_frame_count>>

\* reset() of the package class: the counters return to 0 unless closing or
\* re-creating the codec raised
decoder_reset(ok) ==
    /\ dec_impl = "package"
    /\ dec_op' = DecOp("reset", FALSE)
    /\ IF ok
       THEN /\ dec_frame_count' = 0
            /\ dec_error_count' = 0
            /\ dec_consecutive_errors' = 0
            /\ dec_run' = 0
            /\ dec_emitted' = 0
       ELSE UNCHANGED <<dec_frame_count, dec_error_count,
                        dec_consecutive_errors, dec_run, dec_emitted>>
    /\ UNCHANGED dec_impl

(***************************************************************************)
(* Specifications                                                          *)
(***************************************************************************)
Init == AudioInit /\ SupInit /\ HdrInit /\ DrvInit /\ NodeInit /\ AudInit /\ TouchInit /\ LockInit /\ DecInit

AudioNext ==
    \/ /\ \E frames \in PullSizes, u \in BOOLEAN : audio_callback(frames, u)
       /\ UNCHANGED <<sup_vars, hdr_vars, drv_vars, node_vars, aud_vars, touch_vars, lock_vars, dec_vars>>
    \/ /\ \E opened \in BOOLEAN : start(opened)
       /\ UNCHANGED <<sup_vars, hdr_vars, drv_vars, node_vars, aud_vars, touch_vars, lock_vars, dec_vars>>
    \/ /\ stop
       /\ UNCHANGED <<sup_vars, hdr_vars, drv_vars, node_vars, aud_vars, touch_vars, lock_vars, dec_vars>>
    \/ /\ \E rate \in SampleRates, ch \in ChannelCounts, opened \in BOOLEAN :
              setSampleRate(rate, ch, opened)
       /\ UNCHANGED <<sup_vars, hdr_vars, drv_vars, node_vars, aud_vars, touch_vars, lock_vars, dec_vars>>
    \/ /\ \E len \in WriteLens, opened \in BOOLEAN : playAudioData(len, opened)
       /\ UNCHANGED <<sup_vars, hdr_vars, drv_vars, node_vars, aud_vars, touch_vars, lock_vars, dec_vars>>

SpecAudio == Init /\ [][AudioNext]_vars

SupNext ==
    \/ /\ \E delay \in ConnectDelays : connect_timer_expires(delay)
       /\ UNCHANGED <<hdr_vars, drv_vars, node_vars, aud_vars, touch_vars, lock_vars, dec_vars>>
    \/ /\ connect_by_user
       /\ UNCHANGED <<hdr_vars, drv_vars, node_vars, aud_vars, touch_vars, lock_vars, dec_vars>>
    \/ /\ disconnectDongle
       /\ UNCHANGED <<hdr_vars, drv_vars, node_vars, aud_vars, touch_vars, lock_vars, dec_vars>>
    \/ /\ handle_failure
       /\ UNCHANGED <<hdr_vars, drv_vars, node_vars, aud_vars, touch_vars, lock_vars, dec_vars>>
    \/ /\ on_connection_failed
       /\ UNCHANGED <<hdr_vars, drv_vars, node_vars, aud_vars, touch_vars, lock_vars, dec_vars>>
    \/ /\ attempt_reconnect
       /\ UNCHANGED <<hdr_vars, drv_vars, node_vars, aud_vars, touch_vars, lock_vars, dec_vars>>
    \/ /\ \E phone_type \in PhoneTypes : handle_plugged(phone_type)
       /\ UNCHANGED <<hdr_vars, drv_vars, node_vars, aud_vars, touch_vars, lock_vars, dec_vars>>
    \/ /\ handle_unplugged
       /\ UNCHANGED <<hdr_vars, drv_vars, node_vars, aud_vars, touch_vars, lock_vars, dec_vars>>
    \/ /\ setVideoSettings
       /\ UNCHANGED <<hdr_vars, drv_vars, node_vars, aud_vars, touch_vars, lock_vars, dec_vars>>
    \/ /\ reload_device
       /\ UNCHANGED <<hdr_vars, drv_vars, node_vars, aud_vars, touch_vars, lock_vars, dec_vars>>
    \/ /\ time_passes
       /\ UNCHANGED <<hdr_vars, drv_vars, node_vars, aud_vars, touch_vars, lock_vars, dec_vars>>
    \/ /\ on_decoder_errors
       /\ UNCHANGED <<hdr_vars, drv_vars, node_vars, aud_vars, touch_vars, lock_vars, dec_vars>>

SpecSupervisor == Init /\ [][SupNext]_vars

\* what the Qt event loop does sooner or later: it delivers a queued
\* connectionFailed signal, and it runs the slot of a single-shot timer that
\* has expired
SignalDelivered ==
    /\ on_connection_failed
    /\ UNCHANGED <<hdr_vars, drv_vars, node_vars, aud_vars, touch_vars, lock_vars, dec_vars>>

TimePasses ==
    /\ time_passes
    /\ UNCHANGED <<hdr_vars, drv_vars, node_vars, aud_vars, touch_vars, lock_vars, dec_vars>>

ReconnectTimerFires ==
    /\ attempt_reconnect
    /\ UNCHANGED <<hdr_vars, drv_vars, node_vars, aud_vars, touch_vars, lock_vars, dec_vars>>

FirstConnect ==
    /\ connect_timer_expires(500)
    /\ UNCHANGED <<hdr_vars, drv_vars, node_vars, aud_vars, touch_vars, lock_vars, dec_vars>>

ReconnectFires ==
    /\ connect_timer_expires(1000)
    /\ UNCHANGED <<hdr_vars, drv_vars, node_vars, aud_vars, touch_vars, lock_vars, dec_vars>>

\* one session after the other, left to the supervisor: the sessions report
\* Plugged, Unplugged and failures, nobody uses the connect and disconnect
\* buttons or changes the settings, and the decoder reports no errors
ReconnectNext ==
    \/ FirstConnect
    \/ ReconnectFires
    \/ /\ handle_failure
       /\ UNCHANGED <<hdr_vars, drv_vars, node_vars, aud_vars, touch_vars, lock_vars, dec_vars>>
    \/ SignalDelivered
    \/ TimePasses
    \/ ReconnectTimerFires
    \/ /\ \E phone_type \in PhoneTypes : handle_plugged(phone_type)
       /\ UNCHANGED <<hdr_vars, drv_vars, node_vars, aud_vars, touch_vars, lock_vars, dec_vars>>
    \/ /\ handle_unplugged
       /\ UNCHANGED <<hdr_vars, drv_vars, node_vars, aud_vars, touch_vars, lock_vars, dec_vars>>

\* the expiry of the reconnect timer is strongly fair: its slot runs unless
\* the timer is restarted every time before it has run down
SpecSupervisorFair ==
    /\ Init /\ [][ReconnectNext]_vars
    /\ WF_vars(SignalDelivered)
    /\ WF_vars(TimePasses)
    /\ SF_vars(ReconnectTimerFires)
    /\ WF_vars(FirstConnect)
    /\ WF_vars(ReconnectFires)

HeaderNext ==
    \/ /\ \E t \in MessageTypes, len \in ByteLengths : build_header(t, len)
       /\ UNCHANGED <<audio_vars, sup_vars, drv_vars, node_vars, aud_vars, touch_vars, lock_vars, dec_vars>>
    \/ /\ parse_header
       /\ UNCHANGED <<audio_vars, sup_vars, drv_vars, node_vars, aud_vars, touch_vars, lock_vars, dec_vars>>

SpecHeader == Init /\ [][HeaderNext]_vars

DriverNext ==
    \/ /\ \E found \in BOOLEAN : initialise(found)
       /\ UNCHANGED <<audio_vars, sup_vars, hdr_vars, node_vars, aud_vars, touch_vars, lock_vars, dec_vars>>
    \/ /\ driver_start
       /\ UNCHANGED <<audio_vars, sup_vars, hdr_vars, node_vars, aud_vars, touch_vars, lock_vars, dec_vars>>
    \/ /\ driver_spawn
       /\ UNCHANGED <<audio_vars, sup_vars, hdr_vars, node_vars, aud_vars, touch_vars, lock_vars, dec_vars>>
    \/ /\ \E outcome \in SendOutcomes : driver_send(outcome)
       /\ UNCHANGED <<audio_vars, sup_vars, hdr_vars, node_vars, aud_vars, touch_vars, lock_vars, dec_vars>>
    \/ /\ \E first \in SendOutcomes, second \in SendOutcomes :
              update_video_settings(first, second)
       /\ UNCHANGED <<audio_vars, sup_vars, hdr_vars, node_vars, aud_vars, touch_vars, lock_vars, dec_vars>>
    \/ /\ \E by \in {"caller", "read"} : close_begin(by)
       /\ UNCHANGED <<audio_vars, sup_vars, hdr_vars, node_vars, aud_vars, touch_vars, lock_vars, dec_vars>>
    \/ /\ close_end
       /\ UNCHANGED <<audio_vars, sup_vars, hdr_vars, node_vars, aud_vars, touch_vars, lock_vars, dec_vars>>
    \/ /\ read_loop_check
       /\ UNCHANGED <<audio_vars, sup_vars, hdr_vars, node_vars, aud_vars, touch_vars, lock_vars, dec_vars>>
    \/ /\ \E outcome \in ReadOutcomes, length \in UnknownLengths :
              read_loop_read(outcome, length)
       /\ UNCHANGED <<audio_vars, sup_vars, hdr_vars, node_vars, aud_vars, touch_vars, lock_vars, dec_vars>>
    \/ /\ \E raised \in BOOLEAN : read_loop_dispatch(raised)
       /\ UNCHANGED <<audio_vars, sup_vars, hdr_vars, node_vars, aud_vars, touch_vars, lock_vars, dec_vars>>
    \/ /\ heartbeat_loop_check
       /\ UNCHANGED <<audio_vars, sup_vars, hdr_vars, node_vars, aud_vars, touch_vars, lock_vars, dec_vars>>
    \/ /\ \E outcome \in SendOutcomes : heartbeat_loop_send(outcome)
       /\ UNCHANGED <<audio_vars, sup_vars, hdr_vars, node_vars, aud_vars, touch_vars, lock_vars, dec_vars>>

SpecDriver == Init /\ [][DriverNext]_vars

\* the steps of the read thread, of the heartbeat thread and of a thread
\* inside close(): each thread keeps running as long as it can take a step
ReadLoop ==
    /\ \/ read_loop_check
       \/ \E outcome \in ReadOutcomes, length \in UnknownLengths :
              read_loop_read(outcome, length)
       \/ \E raised \in BOOLEAN : read_loop_dispatch(raised)
    /\ UNCHANGED <<audio_vars, sup_vars, hdr_vars, node_vars, aud_vars, touch_vars, lock_vars, dec_vars>>

HeartbeatLoop ==
    /\ \/ heartbeat_loop_check
       \/ \E outcome \in SendOutcomes : heartbeat_loop_send(outcome)
    /\ UNCHANGED <<audio_vars, sup_vars, hdr_vars, node_vars, aud_vars, touch_vars, lock_vars, dec_vars>>

CloseReturns ==
    /\ close_end
    /\ UNCHANGED <<audio_vars, sup_vars, hdr_vars, node_vars, aud_vars, touch_vars, lock_vars, dec_vars>>

SpecDriverFair ==
    /\ Init
    /\ [][DriverNext]_vars
    /\ WF_vars(ReadLoop)
    /\ WF_vars(HeartbeatLoop)
    /\ WF_vars(CloseReturns)

NodeNext ==
    \/ /\ \E outcome \in StartOutcomes : node_start_driver(outcome)
       /\ UNCHANGED <<audio_vars, sup_vars, hdr_vars, aud_vars, touch_vars, lock_vars, dec_vars>>
    \/ /\ \E armed \in BOOLEAN : node_start_arm(armed)
       /\ UNCHANGED <<audio_vars, sup_vars, hdr_vars, aud_vars, touch_vars, lock_vars, dec_vars>>
    \/ /\ \E kind \in MessageKinds : node_read(kind)
       /\ UNCHANGED <<audio_vars, sup_vars, hdr_vars, aud_vars, touch_vars, lock_vars, dec_vars>>
    \/ /\ node_read_stopped
       /\ UNCHANGED <<audio_vars, sup_vars, hdr_vars, aud_vars, touch_vars, lock_vars, dec_vars>>
    \/ /\ node_dispatch
       /\ UNCHANGED <<audio_vars, sup_vars, hdr_vars, aud_vars, touch_vars, lock_vars, dec_vars>>
    \/ /\ pair_timer_fire
       /\ UNCHANGED <<audio_vars, sup_vars, hdr_vars, aud_vars, touch_vars, lock_vars, dec_vars>>
    \/ /\ \E referred \in BOOLEAN : frame_timer_expire(referred)
       /\ UNCHANGED <<audio_vars, sup_vars, hdr_vars, aud_vars, touch_vars, lock_vars, dec_vars>>
    \/ /\ \E referred \in BOOLEAN : frame_timer_send(referred)
       /\ UNCHANGED <<audio_vars, sup_vars, hdr_vars, aud_vars, touch_vars, lock_vars, dec_vars>>
    \/ /\ node_stop_begin
       /\ UNCHANGED <<audio_vars, sup_vars, hdr_vars, aud_vars, touch_vars, lock_vars, dec_vars>>
    \/ /\ node_stop_end
       /\ UNCHANGED <<audio_vars, sup_vars, hdr_vars, aud_vars, touch_vars, lock_vars, dec_vars>>

SpecNode == Init /\ [][NodeNext]_vars

WireNext ==
    /\ \E t \in WireTypes, len \in WireLengths, damage \in WireDamage :
           receive_header(t, len, damage)
    /\ UNCHANGED <<audio_vars, sup_vars, drv_vars, node_vars, aud_vars, touch_vars, lock_vars, dec_vars>>

SpecWire == Init /\ [][WireNext]_vars

AudioMessageNext ==
    \/ /\ \E registered \in BOOLEAN : set_microphone_callback(registered)
       /\ UNCHANGED <<audio_vars, sup_vars, hdr_vars, drv_vars, node_vars, touch_vars, lock_vars, dec_vars>>
    \/ /\ \E length \in AudioLengths, byte \in AudioBytes :
              receive_audio(length, byte)
       /\ UNCHANGED <<audio_vars, sup_vars, hdr_vars, drv_vars, node_vars, touch_vars, lock_vars, dec_vars>>
    \/ /\ \E callback_raises \in BOOLEAN : handle_audio(callback_raises)
       /\ UNCHANGED <<audio_vars, sup_vars, hdr_vars, drv_vars, node_vars, touch_vars, lock_vars, dec_vars>>

SpecAudioMessage == Init /\ [][AudioMessageNext]_vars

TouchNext ==
    /\ \E x \in TouchValues, y \in TouchValues, action \in TouchActions :
           send_touch(x, y, action)
    /\ UNCHANGED <<audio_vars, sup_vars, hdr_vars, drv_vars, node_vars, aud_vars, lock_vars, dec_vars>>

SpecTouch == Init /\ [][TouchNext]_vars

LockNext ==
    \/ /\ \E n \in LockWriteFrames : lock_play_begin(n)
       /\ UNCHANGED <<audio_vars, sup_vars, hdr_vars, drv_vars, node_vars, aud_vars, touch_vars, dec_vars>>
    \/ /\ lock_stop_begin
       /\ UNCHANGED <<audio_vars, sup_vars, hdr_vars, drv_vars, node_vars, aud_vars, touch_vars, dec_vars>>
    \/ /\ lock_configure_begin
       /\ UNCHANGED <<audio_vars, sup_vars, hdr_vars, drv_vars, node_vars, aud_vars, touch_vars, dec_vars>>
    \/ /\ lock_reset_enter
       /\ UNCHANGED <<audio_vars, sup_vars, hdr_vars, drv_vars, node_vars, aud_vars, touch_vars, dec_vars>>
    \/ /\ lock_reset_exit
       /\ UNCHANGED <<audio_vars, sup_vars, hdr_vars, drv_vars, node_vars, aud_vars, touch_vars, dec_vars>>
    \/ /\ \E opened \in BOOLEAN : lock_stream_open(opened)
       /\ UNCHANGED <<audio_vars, sup_vars, hdr_vars, drv_vars, node_vars, aud_vars, touch_vars, dec_vars>>
    \/ /\ lock_write_enter
       /\ UNCHANGED <<audio_vars, sup_vars, hdr_vars, drv_vars, node_vars, aud_vars, touch_vars, dec_vars>>
    \/ /\ lock_write_exit
       /\ UNCHANGED <<audio_vars, sup_vars, hdr_vars, drv_vars, node_vars, aud_vars, touch_vars, dec_vars>>
    \/ /\ \E frames \in PullSizes : lock_pull_enter(frames)
       /\ UNCHANGED <<audio_vars, sup_vars, hdr_vars, drv_vars, node_vars, aud_vars, touch_vars, dec_vars>>
    \/ /\ lock_pull_exit
       /\ UNCHANGED <<audio_vars, sup_vars, hdr_vars, drv_vars, node_vars, aud_vars, touch_vars, dec_vars>>

SpecAudioLock == Init /\ [][LockNext]_vars

DecoderNext ==
    \/ /\ \E impl \in DecoderImpls : decoder_init(impl)
       /\ UNCHANGED <<audio_vars, sup_vars, hdr_vars, drv_vars, node_vars, aud_vars, touch_vars, lock_vars>>
    \/ /\ decode_frame_decoded
       /\ UNCHANGED <<audio_vars, sup_vars, hdr_vars, drv_vars, node_vars, aud_vars, touch_vars, lock_vars>>
    \/ /\ decode_frame_no_frame
       /\ UNCHANGED <<audio_vars, sup_vars, hdr_vars, drv_vars, node_vars, aud_vars, touch_vars, lock_vars>>
    \/ /\ decode_frame_error
       /\ UNCHANGED <<audio_vars, sup_vars, hdr_vars, drv_vars, node_vars, aud_vars, touch_vars, lock_vars>>
    \/ /\ \E ok \in BOOLEAN : decoder_reset(ok)
       /\ UNCHANGED <<audio_vars, sup_vars, hdr_vars, drv_vars, node_vars, aud_vars, touch_vars, lock_vars>>

SpecDecoder == Init /\ [][DecoderNext]_vars

(***************************************************************************)
(* Properties of the audio ring buffer, checked under SpecAudio.           *)
(***************************************************************************)
Available == get_available_samples(write_pos, read_pos)

\* C1: a write of n <= capacity frames that exceeds the free space drops
\* exactly overflow = n - free_space of the oldest frames; every other
\* buffered frame and all n new frames remain readable in order, and
\* available after the write does not exceed capacity.
C1_OverflowKeepsNewest ==
    [][(audio_op'.op = "write" /\ audio_op'.drop > 0
            /\ g_written' - g_written <= buffer_size)
       => LET n == g_written' - g_written
              old == Readable(buffer, read_pos, write_pos)
              overflow == audio_op'.drop
          IN  /\ overflow = n - (buffer_size - Len(old))
              /\ Readable(buffer', read_pos', write_pos')
                    = SubSeq(old, overflow + 1, Len(old)) \o NewFrames(g_written, n)
              /\ get_available_samples(write_pos', read_pos') <= buffer_size
      ]_vars

\* C2: since the last cursor reset, while the pending frames never exceeded
\* capacity and nothing was discarded (no overflow drop, no resync),
\* available equals frames written minus frames read.
C2_AvailableIsWrittenMinusRead ==
    (g_dropped = 0 /\ ~g_lapped /\ g_written - g_read <= buffer_size)
        => Available = g_written - g_read

\* C3: in every reachable state 0 <= available <= capacity, both cursors are
\* inside the array, and the read cursor has not passed the write cursor:
\* frames read plus frames discarded never exceed frames written since the
\* last cursor reset.
C3_ReadNeverPassesWrite ==
    /\ read_pos \in 0..(buffer_size - 1)
    /\ write_pos \in 0..(buffer_size - 1)
    /\ Available >= 0
    /\ Available <= buffer_size
    /\ g_read + g_dropped <= g_written

\* an emergency resync has just run in a session that also dropped frames
\* on an overflowing write
C3_Witness ==
    /\ audio_op.op = "pull_read"
    /\ audio_op.drop > 0
    /\ g_dropped > audio_op.drop

\* C4: as long as no frame was lost to overflow, resync or reset, a
\* successful pull delivers the next frames in the order they were written
\* (frame k of the session is the k-th delivered), also across the end of
\* the array.
C4_PullsDeliverFifo ==
    (audio_op.op = "pull_read" /\ g_dropped = audio_op.drop /\ ~g_lapped)
        => outdata = [i \in 1..Len(outdata) |-> g_read - Len(outdata) + i]

\* a pull that read across the end of the array (cells 23 and 0) the two
\* frames that the second of two 16-frame writes had written across it
C4_Witness ==
    /\ audio_op.op = "pull_read"
    /\ g_dropped = 0
    /\ ~g_lapped
    /\ frames_received = 2
    /\ g_written = 32
    /\ outdata = <<buffer_size, buffer_size + 1>>

\* C5: while Buffering, a pull with available < min_buffer_samples outputs
\* silence and leaves the cursors and the Buffering flag as they are; a pull
\* with available >= min_buffer_samples (the first such pull, since it ends
\* Buffering) leaves the player Playing with the underrun counter at zero.
C5_BufferingGate ==
    [][(buffering /\ audio_op'.op \in {"pull_wait", "pull_read", "pull_underrun"})
       => IF Available < min_buffer_samples
          THEN /\ outdata' = Silence(Len(outdata'))
               /\ read_pos' = read_pos
               /\ write_pos' = write_pos
               /\ buffering'
          ELSE /\ ~buffering'
               /\ underruns' = 0
      ]_vars

\* a pull has just ended Buffering with exactly min_buffer_samples pending
C5_Witness ==
    /\ audio_op.op = "pull_read"
    /\ audio_op.flip
    /\ ~buffering
    /\ underruns = 0
    /\ g_read = Len(outdata)
    /\ g_read + Available = min_buffer_samples

BackoffTable == <<5000, 10000, 20000, 30000, 30000>>

\* C7: a failure notification handled with n < max_reconnect_attempts
\* attempts made schedules the reconnect timer for min(5000 * 2^n, 30000) ms
\* (5 s, 10 s, 20 s, 30 s, 30 s) and leaves the counter alone; every attempt
\* (expiry of that timer) adds exactly one to the counter; a failure
\* notification after max_reconnect_attempts attempts schedules nothing.
C7_BackoffSchedule ==
    [][/\ sup_op' = "failed" =>
            /\ reconnect_attempts' = reconnect_attempts
            /\ connect_timers' = connect_timers
            /\ IF reconnect_attempts < max_reconnect_attempts
               THEN reconnect_timer' = BackoffTable[reconnect_attempts + 1]
               ELSE reconnect_timer' = 0
       /\ sup_op' = "attempt" =>
            /\ reconnect_attempts' = reconnect_attempts + 1
            /\ reconnect_timer' = 0
      ]_vars

\* the failure after the fifth attempt has been handled: nothing is scheduled
C7_Witness ==
    /\ sup_op = "failed"
    /\ reconnect_attempts = max_reconnect_attempts
    /\ reconnect_timer = 0
    /\ PendingTimers = 0

\* C8: a failure notification that arrives when the attempts are used up
\* puts the supervisor into the status "Failed - Manual reconnection needed"
\* and leaves no reconnect timer pending.
C8_TerminalStatus ==
    [][(sup_op' = "failed" /\ reconnect_attempts >= max_reconnect_attempts)
       => /\ dongle_status' = "Failed - Manual reconnection needed"
          /\ reconnect_timer' = 0
      ]_vars

C10_HeaderRoundTrip ==
    /\ hdr_stage \in {"encoded", "decoded"} =>
          /\ Len(hdr_buffer) = 16
          /\ \A i \in 1..Len(hdr_buffer) : hdr_buffer[i] \in 0..255
    /\ hdr_stage = "decoded" =>
          /\ hdr_result.ok
          /\ hdr_result.type = hdr_type
          /\ hdr_result.length = hdr_length

\* a HeartBeat header (0xaa) with the largest length has made the round trip
C10_Witness ==
    /\ hdr_stage = "decoded"
    /\ hdr_type = 170
    /\ hdr_length = U32(65535, 65535)
    /\ hdr_result.ok
    /\ hdr_buffer = <<170, 85, 170, 85, 255, 255, 255, 255,
                      170, 0, 0, 0, 85, 255, 255, 255>>

(***************************************************************************)
(* Properties of header parsing, checked under SpecWire.                   *)
(***************************************************************************)
\* the four bytes of field k (0 = magic, 1 = length, 2 = type, 3 = check)
Field(buf, k) == SubSeq(buf, 4 * k + 1, 4 * k + 4)

\* the type-check field is the bitwise complement of the type field: every
\* check byte and its type byte add up to 255
CheckMatchesType(buf) == \A i \in 1..4 : Field(buf, 3)[i] + Field(buf, 2)[i] = 255

\* C11: from_buffer raises HeaderBuildError, and yields no header, for every
\* buffer that is not 16 bytes long, whose magic is not 0x55AA55AA or whose
\* type-check field is not the complement of its type field; an accepted
\* header always satisfies the type-check relation.
C11_BadHeaderRejected ==
    hdr_stage = "received" =>
        /\ (\/ Len(hdr_buffer) # 16
            \/ Field(hdr_buffer, 0) # <<170, 85, 170, 85>>
            \/ ~CheckMatchesType(hdr_buffer))
              => hdr_result = HeaderBuildError
        /\ hdr_result.ok =>
              /\ Len(hdr_buffer) = 16
              /\ Field(hdr_buffer, 0) = <<170, 85, 170, 85>>
              /\ CheckMatchesType(hdr_buffer)

\* a Plugged header whose type-check field alone was damaged has been rejected
C11_Witness ==
    /\ hdr_stage = "received"
    /\ hdr_buffer = <<170, 85, 170, 85, 0, 1, 0, 0, 2, 0, 0, 0, 254, 255, 255, 255>>
    /\ hdr_result = HeaderBuildError

(***************************************************************************)
(* Properties of the dongle driver, checked under SpecDriver.              *)
(***************************************************************************)
\* the step just made is the read of one loop iteration ending as `outcome`
ReadStep(outcome) ==
    /\ read_thread = "reading"
    /\ drv_op'.op = "read"
    /\ drv_op'.outcome = outcome

\* the step just made is the test at the top of the read loop
CheckStep == read_thread = "top" /\ drv_op'.op = "read_check"

\* the read loop fails the driver: flag cleared, subscribers notified, loop over
FailsDriver ==
    /\ running' = FALSE
    /\ drv_op'.notified
    /\ failures' = Min(failures + 1, MaxFailures)
    /\ read_thread' = "done"

\* C12 as claimed: the counter goes up by one on every I/O error (USB error,
\* timeout, overflow, pipe error, other OSError) and every parse error (bad
\* header, unknown type, undecodable payload), a received message resets it
\* to zero, and at 20 the running loop fails the driver.
C12_EveryErrorCounted ==
    [][/\ \A outcome \in {"usb_error", "timeout", "overflow_flushed",
                          "overflow_stuck", "pipe_error", "os_error",
                          "bad_header", "unknown_type", "undecodable"} :
              ReadStep(outcome) => error_count' = error_count + 1
       /\ ReadStep("message") => error_count' = 0
       /\ (CheckStep /\ running /\ device /\ error_count >= 20) => FailsDriver
      ]_vars

\* C12 as amended: the counter goes up by one on a bad header, a USB error
\* that is neither a timeout nor device-gone, an overflow that could not be
\* cleared, a pipe error, any other OSError and any other exception (a
\* raising subscriber included); a timeout, an unknown type, a cleared
\* overflow and a read that yields no message object leave it unchanged; a
\* read that yields a message object resets it to zero; the loop, when it
\* finds the counter at 20 or more at the top of an iteration while still
\* running, fails the driver, and below 20 it goes on reading.
C12_CountedErrors ==
    [][/\ \A outcome \in {"usb_error", "usb_overflow", "usb_pipe",
                          "overflow_stuck", "pipe_error", "os_error",
                          "bad_header", "exception"} :
              ReadStep(outcome) => error_count' = error_count + 1
       /\ \A outcome \in {"timeout", "unknown_type", "overflow_flushed",
                          "no_message", "undecodable"} :
              ReadStep(outcome) => error_count' = error_count
       /\ ReadStep("message") => error_count' = 0
       /\ (read_thread = "dispatching" /\ drv_op'.op = "dispatch") =>
              error_count' = error_count + (IF drv_op'.outcome = "raised" THEN 1 ELSE 0)
       /\ (CheckStep /\ running /\ device /\ error_count >= 20) => FailsDriver
       /\ (CheckStep /\ running /\ device /\ error_count < 20) =>
              (read_thread' = "reading" /\ ~drv_op'.notified /\ running')
       /\ error_count' <= 20
      ]_vars

\* the loop has failed the driver after twenty counted errors in a row
C12_Witness ==
    /\ drv_op = DrvOp("read_check", "max_errors", TRUE)
    /\ error_count = 20
    /\ read_thread = "done"
    /\ ~running
    /\ device
    /\ messages_read > 0

\* C13: failure subscribers are notified only by the loop finding the counter
\* at the threshold, by a read with the device-gone signature or by a send
\* with it; a read that ends with a bad header, an unknown type, a timeout
\* or an undecodable payload leaves the loop running and notifies nobody.
C13_FailureOnlyAtThresholdOrGone ==
    [][/\ drv_op'.notified =>
              \/ CheckStep /\ error_count >= 20
              \/ ReadStep("usb_gone")
              \/ /\ drv_op'.op \in {"send", "heartbeat", "update_video_settings"}
                 /\ drv_op'.outcome = "gone"
       /\ failures' # failures => drv_op'.notified
       /\ \A outcome \in {"bad_header", "unknown_type", "timeout",
                          "undecodable", "no_message"} :
              ReadStep(outcome) =>
                  /\ read_thread' = "top"
                  /\ running' = running
                  /\ failures' = failures
                  /\ ~drv_op'.notified
      ]_vars

\* a header was refused with the counter at 19, and the loop is still alive
C13_Witness ==
    /\ drv_op = DrvOp("read", "bad_header", FALSE)
    /\ error_count = 20
    /\ read_thread = "top"
    /\ running
    /\ failures = 0

\* C14: a read that fails with the device-gone signature clears the running
\* flag, notifies the failure subscribers and ends the loop whatever the
\* counter is; a send that fails with it clears the flag, notifies and
\* returns False; the loop ends at its next test once the flag is cleared.
C14_DeviceGoneFailsAtOnce ==
    [][/\ ReadStep("usb_gone") => FailsDriver
       /\ (drv_op'.op \in {"send", "heartbeat"} /\ device
             /\ drv_op'.outcome = "gone") =>
              /\ running' = FALSE
              /\ drv_op'.notified
              /\ failures' = Min(failures + 1, MaxFailures)
              /\ ~send_returned'
       /\ (CheckStep /\ ~running) => read_thread' = "done"
      ]_vars

\* a send found the device gone while the counter was still at zero
C14_Witness ==
    /\ drv_op = DrvOp("send", "gone", TRUE)
    /\ error_count = 0
    /\ ~running
    /\ failures = 1
    /\ read_thread = "reading"

\* C15: the subscribers get the messages in the order they were read, one at
\* a time: the message in hand is the next one after those delivered, and
\* the loop reads the next header only when nothing is in hand.
C15_DeliveredInReadOrder ==
    /\ delivered = [i \in 1..Len(delivered) |-> i]
    /\ in_hand # 0 =>
          in_hand = Len(delivered) + 1 /\ in_hand = messages_read
             /\ read_thread = "dispatching"
    /\ read_thread \in {"top", "reading"} =>
          in_hand = 0 /\ Len(delivered) = messages_read

\* two messages were read and both delivered, in the order read
C15_Witness ==
    /\ delivered = <<1, 2>>
    /\ messages_read = 2
    /\ read_thread = "reading"

\* C16: once failure subscribers have been notified, no message is handed to
\* the message subscribers and no heartbeat is written any more.
C16_FailedIsAbsorbing ==
    [][failures > 0 =>
          /\ drv_op'.op # "dispatch"
          /\ heartbeats' = heartbeats
          /\ ~(drv_op'.op = "heartbeat" /\ drv_op'.outcome = "ok")
      ]_vars

(***************************************************************************)
(* Properties of the session controller, checked under SpecNode.           *)
(***************************************************************************)
\* the step just made is the handler of the message the read thread held
HandleStep == read_thread = "dispatching" /\ node_op'.op = "handle"

\* the step just made wrote the named command to the dongle
Wrote(name) == node_op' = NodeOp(name, "written")

\* C17: once a Plugged, Video, Audio or Media message has been handled, no
\* "wifiPair" command is sent in that session, however start() and the read
\* thread interleave.
C17_DataCancelsPairing ==
    [][data_handled => (~Wrote("pair_send") /\ wifi_pairs' = wifi_pairs)]_vars

\* C18: the pairing Timer armed by start() fires at most once: it fires only
\* while armed and un-cancelled, and then exactly one "wifiPair" command is
\* written, the only one of the session; a Timer that has fired or was
\* cancelled does nothing more; stop() while the Timer is armed cancels it
\* for good.
C18_PairTimeoutFiresOnce ==
    [][/\ wifi_pairs' <= 1
       /\ node_op'.op = "pair_send" =>
              /\ pair_timer = "armed" /\ pair_timer' = "fired"
              /\ node_pc = "started"
              /\ device => (wifi_pairs = 0 /\ wifi_pairs' = 1)
       /\ wifi_pairs' # wifi_pairs => node_op'.op = "pair_send"
       /\ pair_timer \in {"fired", "cancelled"} =>
              (pair_timer' = pair_timer /\ wifi_pairs' = wifi_pairs)
       /\ (node_op' = NodeOp("stop", "begin") /\ pair_timer = "armed") =>
              (pair_timer' = "cancelled" /\ ~pair_timeout')
      ]_vars

\* no message arrived, the Timer expired and one "wifiPair" was written
C18_Witness ==
    /\ node_op = NodeOp("pair_send", "written")
    /\ node_pc = "started"
    /\ pair_timer = "fired"
    /\ wifi_pairs = 1
    /\ ~data_handled
    /\ node_messages = 0

C20_UnpluggedStopsKeepAlive ==
    [][/\ (~frame_interval_active /\ ~frame_interval_active') => ~Wrote("frame_send")
       /\ (HandleStep /\ node_in_hand = "Unplugged") =>
              (pair_timer' = pair_timer /\ pair_timeout' = pair_timeout)
       /\ node_op' = NodeOp("stop", "begin") =>
              (frame_interval' # "armed" /\ stray_armed' = 0)
      ]_vars

\* the step just made was _handle_audio
HandledAudio == aud_op' = [op |-> "handle_audio", ended |-> "returned"]
                \/ aud_op' = [op |-> "handle_audio", ended |-> "raised"]

\* C21: for every AudioData message the session controller handles, the
\* registered microphone callback is called exactly once with 'start' when
\* the command is AudioSiriStart or AudioPhonecallStart, exactly once with
\* 'stop' when it is AudioSiriStop or AudioPhonecallStop, and not at all
\* for any other command or for a message without a command; when no
\* callback is registered nothing is called, the handler does not raise and
\* the AUDIO event is still given to onmessage.
C21_MicrophoneCallback ==
    [][HandledAudio =>
         LET command == aud_message.command
             expected == IF command \in {8, 4} THEN <<"start">>
                         ELSE IF command \in {9, 5} THEN <<"stop">>
                         ELSE <<>>
         IN  /\ mic_registered => mic_calls' = expected
             /\ ~mic_registered =>
                    /\ mic_calls' = <<>>
                    /\ aud_op'.ended = "returned"
                    /\ audio_events' = 1
             /\ mic_calls' = <<>> =>
                    (aud_op'.ended = "returned" /\ audio_events' = 1)
      ]_vars

\* the 13-byte payload ending in 08 was decoded and handled with a callback
\* registered: the callback was called once with 'start'
C21_Witness ==
    /\ aud_stage = "handled"
    /\ aud_amount = 1
    /\ aud_byte = 8
    /\ aud_message.command = AudioSiriStart
    /\ mic_registered
    /\ mic_calls = <<"start">>
    /\ audio_events = 1

\* C23: every decoded AudioData instance has exactly one payload
\* interpretation, chosen by the number of bytes after the 12-byte audio
\* header: 1 byte gives a command (no volume_duration, no data), 4 bytes
\* give a volume_duration (no command, no data), any other number gives
\* samples (no command, no volume_duration), as many as half that number.
C23_OnePayloadInterpretation ==
    (aud_stage # "idle" /\ aud_message # NoMessage) =>
        LET has_command == aud_message.command # 0
            has_duration == aud_message.volume_duration
            has_data == aud_message.data # -1
        IN  /\ aud_message.class = "AudioData"
            /\ aud_amount = 1 =>
                   (has_command /\ ~has_duration /\ ~has_data
                    /\ aud_message.command = aud_byte)
            /\ aud_amount = 4 => (~has_command /\ has_duration /\ ~has_data)
            /\ aud_amount \notin {1, 4} =>
                   (~has_command /\ ~has_duration /\ has_data
                    /\ 2 * aud_message.data = aud_amount)

\* a payload of 12 + 6 bytes was decoded into three samples
C23_Witness ==
    /\ aud_stage = "decoded"
    /\ aud_amount = 6
    /\ aud_message # NoMessage
    /\ aud_message.data = 3
    /\ aud_message.command = 0
    /\ ~aud_message.volume_duration

\* the step just made was an exception inside CarplayNode.start()
StartRaised ==
    \/ node_op' = NodeOp("start_driver", "raised")
    \/ node_op' = NodeOp("start_arm", "raised")

FloorScaled(v) == (10000 * v.num) \div v.den

\* floor(10000 * v) limited to 0..10000
ClampedFloor(v) ==
    IF FloorScaled(v) < 0 THEN 0
    ELSE IF FloorScaled(v) > 10000 THEN 10000
    ELSE FloorScaled(v)

\* C24: for every normalized (x, y), values below 0 and above 1 included,
\* the encoded x and y are integers in 0..10000 equal to
\* clamp(floor(10000 * v), 0, 10000), the first field is the action code
\* (14, 15 or 16) and the fourth field is 0; (0.5, 0.5, Down) encodes to
\* (14, 5000, 5000, 0).
C24_TouchEncoding ==
    touch_stage = "encoded" =>
        /\ Len(touch_payload) = 4
        /\ touch_payload[1] = touch_action
        /\ touch_payload[1] \in {14, 15, 16}
        /\ touch_payload[2] \in 0..10000
        /\ touch_payload[3] \in 0..10000
        /\ touch_payload[2] = ClampedFloor(touch_x)
        /\ touch_payload[3] = ClampedFloor(touch_y)
        /\ touch_payload[4] = 0
        /\ (touch_x = Fraction(1, 2) /\ touch_y = Fraction(1, 2)
            /\ touch_action = 14) => touch_payload = <<14, 5000, 5000, 0>>

\* a touch left of the screen and below it was encoded: x is negative with
\* a fractional part, y is above 1
C24_Witness ==
    /\ touch_stage = "encoded"
    /\ touch_x = Fraction(-1, 30000)
    /\ touch_y = Fraction(3, 2)
    /\ touch_payload = <<15, 0, 10000, 0>>

\* no loop of the driver is alive
LoopsStopped ==
    /\ read_thread \in {"none", "done"}
    /\ heartbeat_thread \in {"none", "done"}

\* C25: close() always returns: it clears the running flag, waits for the
\* loops other than the one it is called from, releases the device, and
\* once it has returned both loops come to an end; a close() made after
\* start() has returned leaves them ended for good.
C25_CloseShutsDown ==
    /\ [][drv_op'.op = "close_begin" => (~running' /\ closing' # "none")]_vars
    /\ [][(closing # "none" /\ closing' = "none") =>
             (drv_op' = DrvOp("close", "ok", FALSE) /\ ~device')]_vars
    /\ (closing # "none") ~> (closing = "none")
    /\ (drv_op.op = "close") ~> LoopsStopped
    /\ (drv_op.op = "close" /\ caller = "started") ~> [](LoopsStopped /\ ~running)

\* C26: when the read loop reads a header of unknown type it goes on with
\* its next iteration, counts no error, and nothing of the skipped frame is
\* left in the IN endpoint: the header and the payload it declared are both
\* consumed, so the next read starts at the next frame.
C26_UnknownTypeSkipped ==
    [][(drv_op'.op = "read" /\ drv_op'.outcome = "unknown_type") =>
          /\ read_thread' = "top"
          /\ error_count' = error_count
          /\ pending_payload' = 0]_vars

\* C27: a read that ends in an endpoint overflow is followed by the drain of
\* the IN endpoint and a halt-clear and leaves the error counter as it was;
\* a read that ends in a pipe error is followed by a halt-clear alone.
C27_OverflowRecovery ==
    [][drv_op'.op = "read" =>
          /\ drv_op'.outcome \in {"usb_overflow", "overflow_flushed"} =>
                 (drv_op'.recovery = "drain_clear" /\ error_count' = error_count)
          /\ drv_op'.outcome = "overflow_stuck" =>
                 drv_op'.recovery = "drain_clear_failed"
          /\ drv_op'.outcome \in {"usb_pipe", "pipe_error"} =>
                 drv_op'.recovery = "clear"]_vars

\* C28: send() and start() called while no device is held, and
\* update_video_settings() called while no config is stored, raise
\* DriverStateError; the call changes no field of the driver, writes nothing
\* and starts no thread.
C28_InvalidSequenceRaises ==
    [][((drv_op'.op \in {"send", "start"} /\ ~device)
        \/ (drv_op'.op = "update_video_settings" /\ ~config)) =>
          /\ drv_op'.outcome = "raised"
          /\ UNCHANGED <<device, running, error_count, read_thread,
                         heartbeat_thread, config, failures, heartbeats>>]_vars

\* a step of setSampleRate
ConfigureStep == audio_op'.op \in {"configure_same", "configure"}

\* C29 as stated: a setSampleRate call that names the sample rate and the
\* channel count the player already has changes nothing; any other call
\* resets both cursors, sets min_buffer_samples from the new rate and leaves
\* the player playing, in Buffering, exactly if it was playing before.
C29_ConfigureAsStated ==
    [][ConfigureStep =>
          IF sample_rate' = sample_rate /\ channels' = channels
          THEN UNCHANGED <<buffer, write_pos, read_pos, buffering, is_playing,
                           min_buffer_samples>>
          ELSE /\ write_pos' = 0
               /\ read_pos' = 0
               /\ min_buffer_samples' = (sample_rate' * 4) \div 5
               /\ is_playing' = is_playing
               /\ is_playing' => buffering'
      ]_vars

\* C29: setSampleRate changes nothing when the rate is the one an earlier
\* call has set and the channel count is the current one; any other call
\* (the first one included) empties the buffer, resets both cursors, sets
\* min_buffer_samples to 0.8 s of the new rate, and leaves the player
\* playing only if it was playing before, then in Buffering with its stream
\* open; a player that was playing and whose stream cannot be opened again
\* is left stopped.
C29_Configure ==
    [][ConfigureStep =>
          IF audio_op'.op = "configure_same"
          THEN /\ current_sample_rate = sample_rate
               /\ UNCHANGED <<buffer, write_pos, read_pos, buffering, is_playing,
                              stream, min_buffer_samples, sample_rate, channels,
                              current_sample_rate>>
          ELSE /\ current_sample_rate # sample_rate' \/ channels # channels'
               /\ buffer' = ZeroBuffer
               /\ write_pos' = 0
               /\ read_pos' = 0
               /\ min_buffer_samples' = (sample_rate' * 4) \div 5
               /\ current_sample_rate' = sample_rate'
               /\ is_playing' => (is_playing /\ buffering' /\ stream')
               /\ ~is_playing' => (~stream' /\ buffering')
      ]_vars

\* a playing player that had received audio has just been given another
\* format and is playing again, in Buffering, with the new threshold
C29_Witness ==
    /\ audio_op.op = "configure"
    /\ frames_received > 0
    /\ is_playing
    /\ stream
    /\ buffering
    /\ write_pos = 0
    /\ read_pos = 0
    /\ sample_rate # default_sample_rate
    /\ min_buffer_samples = (sample_rate * 4) \div 5

\* a pull made while Playing (not Buffering)
PlayingPull == ~buffering /\ audio_op'.op \in {"pull_read", "pull_underrun"}

\* C30 as stated: while Playing, a pull that finds fewer frames than it
\* requests outputs silence, adds exactly one to the underrun counter and
\* moves no cursor; a pull that finds enough copies the requested frames,
\* moves the read cursor by that many modulo the capacity and leaves the
\* underrun counter alone.
C30_UnderrunAsStated ==
    [][PlayingPull =>
          LET requested == Len(outdata')
          IN  IF Available < requested
              THEN /\ outdata' = Silence(requested)
                   /\ underruns' = underruns + 1
                   /\ read_pos' = read_pos
                   /\ write_pos' = write_pos
                   /\ ~buffering'
              ELSE /\ read_pos' = (read_pos + requested) % buffer_size
                   /\ underruns' = underruns
      ]_vars

\* C30: while Playing, a pull first adds one to the underrun counter if the
\* host reports an output underflow; with available (write cursor minus
\* read cursor modulo the capacity) below the request it then outputs
\* silence, adds one more, moves no cursor and stays Playing; otherwise it
\* copies the requested frames from the read cursor on and moves the read
\* cursor by that many modulo the capacity, and by available - target_buffer
\* more when available exceeds hard_max.
C30_Underrun ==
    [][PlayingPull =>
          LET requested == Len(outdata')
              host == IF audio_op'.host THEN 1 ELSE 0
              skip == IF Available > sample_rate * 5
                      THEN Available - (sample_rate * 3) \div 2 ELSE 0
          IN  IF Available < requested
              THEN /\ audio_op'.op = "pull_underrun"
                   /\ outdata' = Silence(requested)
                   /\ underruns' = underruns + 1 + host
                   /\ read_pos' = read_pos
                   /\ write_pos' = write_pos
                   /\ ~buffering'
              ELSE /\ audio_op'.op = "pull_read"
                   /\ outdata' = [i \in 1..requested |->
                                     buffer[(read_pos + i - 1) % buffer_size]]
                   /\ read_pos' = (read_pos + requested + skip) % buffer_size
                   /\ write_pos' = write_pos
                   /\ underruns' = underruns + host
                   /\ ~buffering'
      ]_vars

\* a pull made while Playing has just found one frame where it asked for
\* more, in a callback for which the host reported an underflow as well
C30_Witness ==
    /\ audio_op.op = "pull_underrun"
    /\ ~audio_op.flip
    /\ audio_op.host
    /\ ~buffering
    /\ underruns = 2
    /\ Available = 1
    /\ outdata = Silence(2)

(***************************************************************************)
(* Properties of the buffer lock, checked under SpecAudioLock.             *)
(***************************************************************************)
\* the thread is between the two steps of a locked block
ProducerInBlock ==
    producer_pc \in {"start_reset_2", "stop_reset_2", "configure_reset_2",
                     "write_2"}

CallbackInBlock == callback_pc = "pull_2"

\* C31: the two threads are never inside a locked block at the same time,
\* and whenever no thread is inside one the read cursor, the write cursor
\* and the Buffering flag are what the blocks entered so far give when each
\* is applied as a single step, in the order they were entered.
C31_LockedUpdatesAreSerial ==
    /\ ~(ProducerInBlock /\ CallbackInBlock)
    /\ (ProducerInBlock \/ CallbackInBlock) <=> lock_owner # "none"
    /\ lock_owner = "none" =>
           Tuple(lk_read_pos, lk_write_pos, lk_buffering) = serial

\* while the stream is playing, a write is inside its locked block and has
\* not yet moved the write cursor: the callback thread has to wait
C31_Witness ==
    /\ producer_pc = "write_2"
    /\ callback_pc = "idle"
    /\ lk_stream
    /\ ~lk_buffering
    /\ lk_write_pos # serial.write_pos
    /\ get_available_samples(lk_write_pos, lk_read_pos) > 0

(***************************************************************************)
(* Further properties of the supervisor, checked under SpecSupervisor and  *)
(* SpecSupervisorFair.                                                     *)
(***************************************************************************)
\* C32: handling tooManyErrors leaves the supervisor disconnected, with one
\* more pending connect, due after 15 s, and with the attempt counter, the
\* reconnect timer and the pending reloads as they were.
C32_DecoderErrorsReconnect ==
    [][sup_op' = "decoder_errors" =>
          /\ ~carplay_node'
          /\ dongle_status' = "Disconnected"
          /\ connect_timers' = [connect_timers EXCEPT ![15000] = @ + 1]
          /\ reconnect_attempts' = reconnect_attempts
          /\ reconnect_timer' = reconnect_timer
          /\ timer_left' = timer_left
          /\ reload_timers' = reload_timers
      ]_vars

\* decoder errors have been handled while the reconnect timer of an earlier
\* failure was running: the connect after 15 s is pending beside it
C32_Witness ==
    /\ sup_op = "decoder_errors"
    /\ ~carplay_node
    /\ connect_timers[15000] = 1
    /\ reconnect_timer = 10000
    /\ reconnect_attempts = 1

\* C36: connectDongle creates a CarplayNode only while the supervisor holds
\* none: no node is created while the one created before has not been
\* stopped.
C36_OneSession ==
    [][sup_op' = "connect" => ~carplay_node]_vars

\* C37: once a failure notification has been handled with attempts left (the
\* reconnect timer is running), _attempt_reconnect runs at some later time.
C37_ReconnectEventually ==
    (sup_op = "failed" /\ reconnect_timer > 0) ~> (sup_op = "attempt")

\* C38: the attempt counter stays between 0 and max_reconnect_attempts.
C38_AttemptsBounded ==
    /\ reconnect_attempts >= 0
    /\ reconnect_attempts <= max_reconnect_attempts

\* the last attempt has just been made
C38_Witness ==
    /\ sup_op = "attempt"
    /\ reconnect_attempts = max_reconnect_attempts
    /\ ~carplay_node

(***************************************************************************)
(* Properties of the video decoder, checked under SpecDecoder.             *)
(***************************************************************************)
\* C33: tooManyErrors is emitted exactly by the decode_frame call that is the
\* tenth failure in a row, at most once in a run of failures that no decoded
\* frame interrupts, and every decoded frame ends the run.
C33_TooManyErrorsAtTen ==
    [][/\ dec_op'.emitted <=>
              (dec_op'.op = "error" /\ dec_run' = max_consecutive_errors)
       /\ dec_emitted' <= 1
       /\ dec_op'.op = "frame" =>
              (dec_run' = 0 /\ dec_consecutive_errors' = 0)]_vars

(***************************************************************************)
(* Further properties of the session controller, checked under SpecNode.   *)
(***************************************************************************)
\* frame Timers that are armed, or whose send_frame passed the test of the
\* flag and is about to send and re-arm: each is one keep-alive chain
FrameChains ==
    (IF frame_interval \in {"armed", "expired"} THEN 1 ELSE 0)
        + stray_armed + stray_expired

\* C34: a session has at most one frame keep-alive chain at any time, also
\* when Plugged is handled (clear, then start) while the send_frame of the
\* previous Timer is under way.
C34_OneKeepAliveChain == FrameChains <= 1

(***************************************************************************)
(* Further properties of the driver, checked under SpecDriver.             *)
(***************************************************************************)
\* C35: in one driver session the failure subscribers are notified at most
\* once: a step that notifies them is made only while no failure has been
\* notified, whether the read loop, the heartbeat loop or a caller of send()
\* detects the failure, and also when send() is called again afterwards.
C35_FailureNotifiedOnce ==
    [][drv_op'.notified => failures = 0]_vars

\* close() has returned: the device claimed by initialise() is released and
\* no close() is under way
DriverClosed ==
    /\ caller \in {"initialised", "starting", "started"}
    /\ ~device
    /\ closing = "none"

\* C39: once close() has returned no message is dispatched to the message
\* subscribers and no failure is notified, although close() waits at most
\* two seconds for each thread and releases the device while a loop may be
\* inside a blocking read or send.
C39_SilentAfterClose ==
    [][DriverClosed => (drv_op'.op # "dispatch" /\ ~drv_op'.notified)]_vars

\* C40: the read loop stays frame-aligned: every read of a 16-byte header is
\* made at a frame boundary, with no byte of an earlier frame's payload
\* still waiting in the endpoint, also after a timeout or a USB error ended
\* the chunked payload read of the frame before.
C40_FrameAligned ==
    [][drv_op'.op = "read" => pending_payload = 0]_vars

====
